---- MODULE Spec2Model ----
(***************************************************************************)
(* Ken Burns Studio backend (src/server.js): the clip timeline compositor  *)
(* (combineClips) fed by the export plan resolution, and the motion-path   *)
(* engine (buildBaseMetrics, getKenBurnsTransform, computeCropRect,        *)
(* generateFramesForImage).                                                *)
(*                                                                         *)
(* JavaScript numbers are modelled as exact rationals <<n, d>> in lowest   *)
(* terms with d > 0; <<0, 0>> stands for a value that is not a finite      *)
(* number (undefined, NaN, a non-numeric JSON value).  Seconds, pixels     *)
(* and zoom factors are all such rationals.                                *)
(***************************************************************************)
EXTENDS Integers, Sequences, FiniteSets, TLC

\* ------------------------------------------------------------------------
\* Bounds of the model
\* ------------------------------------------------------------------------

\* Largest number of clips in an export plan.
MaxClips == 3

\* Full-sequence renders use durations k / FPS for k in 1..MaxFrames.
MaxFrames == 4

\* The easing solver works on the grid of multiples of 1 / (100 * EaseResolution).
EaseResolution == 10

\* Frames written per image when two render requests are handled at once.
RaceFrames == 2

\* Largest number of configs resolved in a run of plan resolutions.
MaxResolved == 4

\* Largest number of images in the plan of an export whose render loop is followed
\* step by step.
MaxImages == 2

\* ------------------------------------------------------------------------
\* Program constants
\* ------------------------------------------------------------------------

FPS == 30

VIEWPORT_WIDTH == 1280

VIEWPORT_HEIGHT == 720

DEFAULT_DURATION == 6

DEFAULT_ZOOM == <<9, 5>>

RENDER_OVERSAMPLE == 2

\* BASE_DEFAULT_CONFIG.fadeDuration
DEFAULT_FADE == <<1, 2>>

NVENC_CODEC == "h264_nvenc"

CPU_FALLBACK_CODEC == "libx264"

\* ------------------------------------------------------------------------
\* Arithmetic of JavaScript numbers, as exact rationals
\* ------------------------------------------------------------------------

Abs(n) == IF n < 0 THEN -n ELSE n

RECURSIVE GCD(_, _)
GCD(a, b) == IF b = 0 THEN a ELSE GCD(b, a % b)

\* The rational n / d (d # 0) in lowest terms with a positive denominator.
Rat(n, d) ==
    LET s == IF d < 0 THEN -1 ELSE 1
        g == GCD(Abs(n), Abs(d))
    IN  << (s * n) \div g, (s * d) \div g >>

NaN == <<0, 0>>

Zero == <<0, 1>>

One == <<1, 1>>

Int2Rat(k) == <<k, 1>>

IsFinite(a) == a[2] # 0

RAdd(a, b) ==
    LET g == GCD(a[2], b[2])
    IN  Rat(a[1] * (b[2] \div g) + b[1] * (a[2] \div g), (a[2] \div g) * b[2])

RNeg(a) == << -a[1], a[2] >>

RSub(a, b) == RAdd(a, RNeg(b))

RMul(a, b) ==
    LET g1 == GCD(Abs(a[1]), b[2])
        g2 == GCD(Abs(b[1]), a[2])
    IN  Rat((a[1] \div g1) * (b[1] \div g2), (a[2] \div g2) * (b[2] \div g1))

\* a / b for b # 0.
RDiv(a, b) == RMul(a, Rat(b[2], b[1]))

RLt(a, b) == a[1] * b[2] < b[1] * a[2]

RLe(a, b) == a[1] * b[2] <= b[1] * a[2]

RMin(a, b) == IF RLe(a, b) THEN a ELSE b

RMax(a, b) == IF RLe(a, b) THEN b ELSE a

\* Math.floor and Math.ceil
RFloor(a) == a[1] \div a[2]

RCeil(a) == -((-a[1]) \div a[2])

\* ------------------------------------------------------------------------
\* Shared helpers of server.js
\* ------------------------------------------------------------------------

clamp(value, min, max) == RMin(RMax(value, min), max)

getSafeDurationAbs(value) ==
    IF ~IsFinite(value) \/ value = Zero THEN Int2Rat(DEFAULT_DURATION)
    ELSE IF RLt(Zero, value) THEN value ELSE RSub(Zero, value)

getSafeDuration(value) ==
    IF IsFinite(value) /\ RLt(Zero, value) THEN value ELSE Int2Rat(DEFAULT_DURATION)

getSafeZoom(value) ==
    IF IsFinite(value) /\ RLt(Zero, value) THEN value ELSE DEFAULT_ZOOM

\* ------------------------------------------------------------------------
\* State
\* ------------------------------------------------------------------------

VARIABLES
    \* POST /api/export-video and combineClips
    request,                \* req.body.plan: the declared config of each image
    autoMotionNext,         \* settings.autoMotion.next
    resolutionLog,          \* every declared config resolved so far, with its result
    plan,                   \* resolvedPlan, the plan handed to combineClips
    clipPathsGiven,         \* whether combineClips is handed a clip list at all
    clipPaths,              \* the clip list handed to combineClips
    useNvenc,               \* USE_NVENC (process environment)
    cpc,                    \* position of the export request
    codec,                  \* codec of the running encodeWithCodec call
    i,                      \* loop index of buildCommand
    runningOutputDuration,  \* accumulator of buildCommand
    filterChain,            \* xfade entries emitted by buildCommand so far
    attempts,               \* codecs handed to the merge encoder, in order
    errors,                 \* the errors of the merge encoder, in order
    finalOutput,            \* how finalOutputPath was produced
    \* generateFramesForImage and the handlers that call it
    handler,                \* the route that renders the image
    sourceSize,             \* sourceMetadata: << width, height >> of the image file
    declaredConfig,         \* the config of the image as the request gives it
    imageConfig,            \* imageConfig.config handed to generateFramesForImage
    options,                \* options.singleProgress (NaN: not given)
    mpc,                    \* position of the render
    locals,                 \* metrics, zooms, transforms and rectangles of the render
    frameJobs,              \* normalized times of the frames still to render
    frames,                 \* what was rendered, frame by frame
    \* transient storage: FRAMES_DIR and CLIPS_DIR under TEMP_DIR
    framesDir,              \* the frame files img-<index>-frame-<frame>.png
    tempClips,              \* the clip files clip-<index>.mp4
    \* the render loop of POST /api/export-video
    archived,               \* plan indices whose clip exists in the project
    renderMode,             \* req.body.renderMode
    renderRange,            \* the tokens of req.body.renderRange
    indicesToRender,        \* the set of the same name
    imageIndex,             \* loop index of the render loop
    generated,              \* indices handed to generateFramesForImage, in order
    clipAttempts,           \* codecs tried by the running createClipFromFrames
    clipErrors,             \* the encoder errors of the running createClipFromFrames
    failure,                \* the error the handler's try block threw
    manifestSaved,          \* whether saveManifest was called
    response,               \* the answer of the handler
    \* the project directory across export requests
    projectClips,           \* output/<slug>/clips: file number -> the clip it holds
    manifest,               \* the images of the project manifest
    \* two render requests handled concurrently
    calls,                  \* per request: its route and the images it renders
    rpc,                    \* per request: its position
    rIndex,                 \* per request: position in its list of images
    rFrame,                 \* per request: the next frame generateFramesForImage writes
    framesRead,             \* per request: the frame files each clip encode read
    \* easeInOut applied on its own
    easeX,                  \* the inputs x, in the order they are applied
    eased                   \* easeInOut(x) and the Newton iterations it took, per input

compositorVars ==
    << request, plan, clipPathsGiven, clipPaths, useNvenc, cpc, codec, i,
       runningOutputDuration, filterChain, attempts, errors, finalOutput >>

motionVars ==
    << handler, sourceSize, declaredConfig, imageConfig, options, mpc, locals,
       frameJobs, frames >>

storageVars == << framesDir, tempClips >>

exportVars ==
    << archived, renderMode, renderRange, indicesToRender, imageIndex, generated,
       clipAttempts, clipErrors, failure, manifestSaved, response >>

projectVars == << projectClips, manifest >>

raceVars == << calls, rpc, rIndex, rFrame, framesRead >>

easeVars == << easeX, eased >>

vars ==
    << autoMotionNext, resolutionLog, projectVars, compositorVars, motionVars, storageVars, exportVars, raceVars,
       easeVars >>

\* What an action of the compositor, or of the frame generation, leaves alone.
besidesCompositor ==
    << resolutionLog, projectVars, motionVars, storageVars, exportVars, raceVars, easeVars >>

besidesMotion ==
    << resolutionLog, projectVars, compositorVars, storageVars, exportVars, raceVars, easeVars >>

\* What a step of the render loop of export-video leaves alone, besides the
\* variables of the loop, the transient storage, the clip list and the position.
besidesExport ==
    << autoMotionNext, resolutionLog, projectVars, request, plan, clipPathsGiven, useNvenc, codec, i,
       runningOutputDuration, filterChain, attempts, errors, finalOutput,
       motionVars, raceVars, easeVars >>

\* ------------------------------------------------------------------------
\* Plan resolution
\* ------------------------------------------------------------------------

NoTarget == [present |-> FALSE, x |-> NaN, y |-> NaN]

BASE_DEFAULT_CONFIG ==
    [ duration     |-> Int2Rat(DEFAULT_DURATION),
      zoom         |-> DEFAULT_ZOOM,
      fadeDuration |-> DEFAULT_FADE,
      motionStyle  |-> "ping-pong" ]

\* A declared fade is kept as it is (the Math.max(0, ...) is dropped).
resolveFadeUnclamped(config, defaultConfig) ==
    IF IsFinite(config.fadeDuration) THEN config.fadeDuration
    ELSE defaultConfig.fadeDuration

resolveFade(config, defaultConfig) ==
    IF IsFinite(config.fadeDuration) THEN RMax(Zero, config.fadeDuration)
    ELSE defaultConfig.fadeDuration

\* config?.x ?? defaultConfig.x : a missing value is modelled as NaN.  A declared
\* value that is present but not numeric falls to the same default here, the
\* default config being BASE_DEFAULT_CONFIG.
resolveConfigWithDefaults(config, defaultConfig) ==
    [ duration     |-> getSafeDuration(IF IsFinite(config.duration)
                                       THEN config.duration
                                       ELSE defaultConfig.duration),
      zoom         |-> getSafeZoom(IF IsFinite(config.zoom)
                                   THEN config.zoom
                                   ELSE defaultConfig.zoom),
      fadeDuration |-> resolveFade(config, defaultConfig),
      motionStyle  |-> IF config.motionStyle # "" THEN config.motionStyle
                       ELSE IF defaultConfig.motionStyle # ""
                            THEN defaultConfig.motionStyle
                            ELSE "ping-pong",
      targetPoint  |-> config.targetPoint ]

\* The pointer stays where it is.
OtherMotionStuck(m) == m

OtherMotion(m) == IF m = "zoom-in" THEN "zoom-out" ELSE "zoom-in"

\* resolvePlanWithDefaults: the pair << resolved plan, settings.autoMotion.next >>
\* after the first k entries of p, starting from pointer next.
RECURSIVE resolvePlanWithDefaults(_, _, _)
resolvePlanWithDefaults(p, k, next) ==
    IF k = 0 THEN << <<>>, next >>
    ELSE LET before == resolvePlanWithDefaults(p, k - 1, next)
             config == resolveConfigWithDefaults(p[k], BASE_DEFAULT_CONFIG)
             nextMotion == IF before[2] = "zoom-out" THEN "zoom-out" ELSE "zoom-in"
         IN  IF ~config.targetPoint.present
             THEN << Append(before[1],
                            [config EXCEPT
                               !.targetPoint = [present |-> TRUE,
                                                x |-> Int2Rat(50), y |-> Int2Rat(50)],
                               !.motionStyle = nextMotion]),
                     OtherMotion(nextMotion) >>
             ELSE << Append(before[1], config), before[2] >>

\* ------------------------------------------------------------------------
\* combineClips
\* ------------------------------------------------------------------------

\* Declared values of req.body.plan[k].config in the compositor runs.
DeclaredDurations == { Rat(1, 200), Int2Rat(3), Int2Rat(6) }

DeclaredFades == { Rat(-1, 2), Zero, Rat(1, 2), Int2Rat(7) }

DeclaredClip ==
    [ duration     : DeclaredDurations,
      fadeDuration : DeclaredFades,
      zoom         : { NaN },
      motionStyle  : { "" },
      targetPoint  : { NoTarget } ]

RECURSIVE SeqsUpTo(_, _)
SeqsUpTo(S, n) ==
    IF n = 0 THEN { <<>> }
    ELSE LET shorter == SeqsUpTo(S, n - 1)
         IN  shorter \cup { Append(q, e) : q \in { r \in shorter : Len(r) = n - 1 }, e \in S }

\* The margin kept between a fade and the shorter of its two clips.
FadeMargin == Rat(1, 100)

\* The fade is clamped to the shorter clip itself (the margin is dropped).
fadeDurationNoMargin(currentClipDuration, nextClipDuration, declaredFade) ==
    clamp(IF IsFinite(declaredFade) /\ RLe(Zero, declaredFade) THEN declaredFade
          ELSE DEFAULT_FADE,
          Zero,
          RMax(Zero, RMin(currentClipDuration, nextClipDuration)))

\* const fadeDuration = clamp(..., 0, Math.max(0, Math.min(cur, next) - 0.01))
fadeDurationOf(currentClipDuration, nextClipDuration, declaredFade) ==
    clamp(IF IsFinite(declaredFade) /\ RLe(Zero, declaredFade) THEN declaredFade
          ELSE DEFAULT_FADE,
          Zero,
          RMax(Zero, RSub(RMin(currentClipDuration, nextClipDuration), FadeMargin)))

\* The offset is taken after the pair has been merged.
offsetAfterMerge(running, nextClipDuration, fadeDuration) ==
    RMax(Zero, RSub(RAdd(running, RSub(nextClipDuration, fadeDuration)), fadeDuration))

\* const offset = Math.max(0, runningOutputDuration - fadeDuration)
offsetOf(running, nextClipDuration, fadeDuration) ==
    RMax(Zero, RSub(running, fadeDuration))

\* The fade is not taken off the merged length.
nextRunningNoOverlap(running, nextClipDuration, fadeDuration) ==
    RAdd(running, nextClipDuration)

\* runningOutputDuration += nextClipDuration - fadeDuration
nextRunning(running, nextClipDuration, fadeDuration) ==
    RAdd(running, RSub(nextClipDuration, fadeDuration))

preferredCodec == IF useNvenc THEN NVENC_CODEC ELSE CPU_FALLBACK_CODEC

\* The lower-cased text of an encoder error (message, stderr and stdout joined),
\* given as the set of the phrases isCodecUnavailableError looks for that occur
\* in it.  An error without text is the empty set.
EncoderErrors ==
    { {},
      { "unknown encoder" },
      { "no nvenc capable devices", "nvenc" },
      { "cannot find nvenc", "nvenc" },
      { "nvenc", "not available" },
      { "nvenc" },
      { "not available" } }

\* Every encoder error starts the fallback.
anyEncoderError(error) == TRUE

isCodecUnavailableError(error) ==
    \/ "unknown encoder" \in error
    \/ "no nvenc capable devices" \in error
    \/ "cannot find nvenc" \in error
    \/ ("nvenc" \in error /\ "not available" \in error)

\* The path of a clip: clip-<index>.mp4 in CLIPS_DIR ("temp") or in the clips
\* directory of the project ("project").
ClipPath(index, from) == [ index |-> index, from |-> from ]

\* export-video: resolvePlanWithDefaults.
ResolvePlan ==
    /\ cpc = "request"
    /\ UNCHANGED besidesCompositor
    /\ LET r == resolvePlanWithDefaults(request, Len(request), autoMotionNext)
       IN  /\ plan' = r[1]
           /\ autoMotionNext' = r[2]
    /\ cpc' = "resolved"
    /\ UNCHANGED << request, clipPathsGiven, clipPaths, useNvenc, codec, i,
                    runningOutputDuration, filterChain, attempts, errors, finalOutput >>

\* The render loop of export-video when every image is rendered and every clip
\* encode succeeds: one clip in CLIPS_DIR per plan entry, in plan order.
RenderClips ==
    /\ cpc = "resolved"
    /\ UNCHANGED besidesCompositor
    /\ clipPaths' = [ k \in 1..Len(plan) |-> ClipPath(k - 1, "temp") ]
    /\ cpc' = "clips"
    /\ UNCHANGED << request, autoMotionNext, plan, clipPathsGiven, useNvenc, codec, i,
                    runningOutputDuration, filterChain, attempts, errors, finalOutput >>

\* The guard for an empty or missing clip list is dropped.
noClipsIgnored(given, paths) == FALSE

\* if (!clipPaths || clipPaths.length === 0)
noClips(given, paths) == ~given \/ Len(paths) = 0

\* The single clip is copied whatever the plan says; no command is built.
singleClipEncoded(n) == FALSE

\* if (clipPaths.length === 1) return fsp.copyFile(...)
singleClipCopied(n) == n = 1

\* encodeWithCodec(c): buildCommand(c) starts with an empty filter chain.
StartEncode(c) ==
    /\ codec' = c
    /\ i' = 0
    /\ runningOutputDuration' =
          IF Len(plan) > 0 THEN getSafeDuration(plan[1].duration) ELSE Zero
    /\ filterChain' = <<>>
    /\ cpc' = "build"

\* combineClips(clipPaths, plan)
CombineClips ==
    /\ cpc = "clips"
    /\ UNCHANGED besidesCompositor
    /\ IF noClips(clipPathsGiven, clipPaths)
       THEN /\ cpc' = "failed"
            /\ UNCHANGED << codec, i, runningOutputDuration, filterChain, finalOutput >>
       ELSE IF singleClipCopied(Len(clipPaths))
       THEN /\ finalOutput' = "copy"
            /\ cpc' = "done"
            /\ UNCHANGED << codec, i, runningOutputDuration, filterChain >>
       ELSE /\ StartEncode(preferredCodec)
            /\ UNCHANGED finalOutput
    /\ UNCHANGED << request, autoMotionNext, plan, clipPathsGiven, clipPaths, useNvenc,
                    attempts, errors >>

\* One iteration of the loop of buildCommand; the command runs after the last.
BuildStep ==
    /\ cpc = "build"
    /\ UNCHANGED besidesCompositor
    /\ i < Len(clipPaths) - 1
    /\ LET currentClipDuration == getSafeDuration(plan[i + 1].duration)
           nextClipDuration == getSafeDuration(plan[i + 2].duration)
           fadeDuration == fadeDurationOf(currentClipDuration, nextClipDuration,
                                          plan[i + 1].fadeDuration)
           offset == offsetOf(runningOutputDuration, nextClipDuration, fadeDuration)
       IN  /\ filterChain' = Append(filterChain,
                                    [duration |-> fadeDuration, offset |-> offset])
           /\ runningOutputDuration' =
                 nextRunning(runningOutputDuration, nextClipDuration, fadeDuration)
    /\ i' = i + 1
    /\ UNCHANGED << request, autoMotionNext, plan, clipPathsGiven, clipPaths, useNvenc,
                    cpc, codec, attempts, errors, finalOutput >>

\* command.run(): the encoder is invoked with the built command.
RunEncoder ==
    /\ cpc = "build"
    /\ UNCHANGED besidesCompositor
    /\ i >= Len(clipPaths) - 1
    /\ attempts' = Append(attempts, codec)
    /\ cpc' = "encoding"
    /\ UNCHANGED << request, autoMotionNext, plan, clipPathsGiven, clipPaths, useNvenc,
                    codec, i, runningOutputDuration, filterChain, errors, finalOutput >>

\* The encoder's "end" event.
EncodeEnd ==
    /\ cpc = "encoding"
    /\ UNCHANGED besidesCompositor
    /\ finalOutput' = "xfade"
    /\ cpc' = "done"
    /\ UNCHANGED << request, autoMotionNext, plan, clipPathsGiven, clipPaths, useNvenc,
                    codec, i, runningOutputDuration, filterChain, attempts, errors >>

\* The encoder's "error" event with error err, and the catch of combineClips.
EncodeError(err) ==
    /\ cpc = "encoding"
    /\ UNCHANGED besidesCompositor
    /\ errors' = Append(errors, err)
    /\ IF Len(attempts) = 1 /\ useNvenc /\ isCodecUnavailableError(err)
       THEN StartEncode(CPU_FALLBACK_CODEC)
       ELSE /\ cpc' = "failed"
            /\ UNCHANGED << codec, i, runningOutputDuration, filterChain >>
    /\ UNCHANGED << request, autoMotionNext, plan, clipPathsGiven, clipPaths, useNvenc,
                    attempts, finalOutput >>

\* What the variables hold while the part of the program they belong to is
\* not running.
CompositorIdle ==
    /\ request = <<>>
    /\ plan = <<>>
    /\ clipPathsGiven = TRUE
    /\ clipPaths = <<>>
    /\ useNvenc = TRUE
    /\ cpc = "idle"
    /\ codec = ""
    /\ i = 0
    /\ runningOutputDuration = Zero
    /\ filterChain = <<>>
    /\ attempts = <<>>
    /\ errors = <<>>
    /\ finalOutput = "none"

MotionIdle ==
    /\ handler = ""
    /\ sourceSize = <<0, 0>>
    /\ declaredConfig = <<>>
    /\ imageConfig = <<>>
    /\ options = NaN
    /\ mpc = "idle"
    /\ locals = <<>>
    /\ frameJobs = <<>>
    /\ frames = <<>>

NoFailure == [ stage |-> "", index |-> -1, message |-> <<>> ]

NoResponse == [ status |-> 0, message |-> <<>> ]

ExportIdle ==
    /\ archived = {}
    /\ renderMode = "all"
    /\ renderRange = <<>>
    /\ indicesToRender = {}
    /\ imageIndex = 0
    /\ generated = <<>>
    /\ clipAttempts = <<>>
    /\ clipErrors = <<>>
    /\ failure = NoFailure
    /\ manifestSaved = FALSE
    /\ response = NoResponse

RaceIdle ==
    /\ calls = <<>>
    /\ rpc = <<>>
    /\ rIndex = <<>>
    /\ rFrame = <<>>
    /\ framesRead = <<>>

StorageIdle ==
    /\ framesDir = {}
    /\ tempClips = {}

EaseIdle ==
    /\ easeX = <<>>
    /\ eased = <<>>

\* The errors the merge encoder of the compositor runs ends with: one that
\* names no missing encoder and one that does.
MergeErrors == { {}, { "unknown encoder" } }

Init ==
    /\ request \in { q \in SeqsUpTo(DeclaredClip, MaxClips) : Len(q) >= 1 }
    /\ autoMotionNext = "zoom-in"
    /\ resolutionLog = <<>>
    /\ projectClips = << >>
    /\ manifest = << >>
    /\ plan = <<>>
    /\ clipPathsGiven = TRUE
    /\ clipPaths = <<>>
    /\ useNvenc \in BOOLEAN
    /\ cpc = "request"
    /\ codec = ""
    /\ i = 0
    /\ runningOutputDuration = Zero
    /\ filterChain = <<>>
    /\ attempts = <<>>
    /\ errors = <<>>
    /\ finalOutput = "none"
    /\ MotionIdle
    /\ StorageIdle
    /\ ExportIdle
    /\ RaceIdle
    /\ EaseIdle

Next ==
    \/ ResolvePlan
    \/ RenderClips
    \/ CombineClips
    \/ BuildStep
    \/ RunEncoder
    \/ EncodeEnd
    \/ \E err \in MergeErrors : EncodeError(err)

Spec == Init /\ [][Next]_vars

\* combineClips called on its own: the clip list is missing, empty, or holds
\* one clip per entry of a resolved plan.
CombineCalls ==
    { [ given |-> FALSE, paths |-> <<>>, plan |-> <<>> ] }
    \cup { [ given |-> TRUE,
             paths |-> [ k \in 1..Len(q) |-> ClipPath(k - 1, "temp") ],
             plan  |-> resolvePlanWithDefaults(q, Len(q), "zoom-in")[1] ] :
           q \in SeqsUpTo(DeclaredClip, MaxClips) }

InitCombine ==
    /\ \E call \in CombineCalls :
          /\ clipPathsGiven = call.given
          /\ clipPaths = call.paths
          /\ plan = call.plan
    /\ request = <<>>
    /\ autoMotionNext = "zoom-in"
    /\ resolutionLog = <<>>
    /\ projectClips = << >>
    /\ manifest = << >>
    /\ useNvenc \in BOOLEAN
    /\ cpc = "clips"
    /\ codec = ""
    /\ i = 0
    /\ runningOutputDuration = Zero
    /\ filterChain = <<>>
    /\ attempts = <<>>
    /\ errors = <<>>
    /\ finalOutput = "none"
    /\ MotionIdle
    /\ StorageIdle
    /\ ExportIdle
    /\ RaceIdle
    /\ EaseIdle

NextCombine ==
    \/ CombineClips
    \/ BuildStep
    \/ RunEncoder
    \/ EncodeEnd
    \/ \E err \in MergeErrors : EncodeError(err)

SpecCombine == InitCombine /\ [][NextCombine]_vars

\* ------------------------------------------------------------------------
\* Easing: cubicBezier(0.42, 0, 0.58, 1)
\*
\* The solver's doubles are modelled in fixed point: an integer e stands for
\* e / EaseScale, and every product or quotient is rounded to that grid.
\* ------------------------------------------------------------------------

EaseScale == 100 * EaseResolution

\* 1 / epsilon for epsilon = 1e-6, of solveCurveX(x, 1e-6) and of the derivative test
EPSILON_INV == 1000000

NEWTON_ITERATIONS == 8

\* n / d (d > 0) rounded to the nearest integer
RoundDiv(n, d) == (2 * n + d) \div (2 * d)

FMul(a, b) == RoundDiv(a * b, EaseScale)

FDiv(a, b) == IF b < 0 THEN RoundDiv(-a * EaseScale, -b) ELSE RoundDiv(a * EaseScale, b)

\* The control points p1x, p1y, p2x, p2y of easeInOut
P1X == 42 * EaseResolution

P1Y == 0

P2X == 58 * EaseResolution

\* The second control point lies above 1.
P2YOvershoot == 2 * EaseScale

P2Y == EaseScale

Cx == 3 * P1X

Bx == 3 * (P2X - P1X) - Cx

Ax == EaseScale - Cx - Bx

Cy == 3 * P1Y

By == 3 * (P2Y - P1Y) - Cy

Ay == EaseScale - Cy - By

sampleCurveX(t) == FMul(FMul(FMul(Ax, t) + Bx, t) + Cx, t)

sampleCurveY(t) == FMul(FMul(FMul(Ay, t) + By, t) + Cy, t)

sampleCurveDerivativeX(t) == FMul(FMul(3 * Ax, t) + 2 * Bx, t) + Cx

\* The loop of solveCurveX from iteration iter on, t0 being the current guess:
\* the value returned and the number of Newton steps taken.
RECURSIVE solveCurveXFrom(_, _, _)
solveCurveXFrom(x, t0, iter) ==
    IF iter >= NEWTON_ITERATIONS THEN [ t |-> t0, iterations |-> iter ]
    ELSE LET x2 == sampleCurveX(t0) - x
         IN  IF Abs(x2) * EPSILON_INV < EaseScale THEN [ t |-> t0, iterations |-> iter ]
             ELSE LET d2 == sampleCurveDerivativeX(t0)
                  IN  IF Abs(d2) * EPSILON_INV < EaseScale
                      THEN [ t |-> t0, iterations |-> iter ]
                      ELSE solveCurveXFrom(x, t0 - FDiv(x2, d2), iter + 1)

solveCurveX(x) == solveCurveXFrom(x, x, 0).t

\* easeInOut(x) for a rational x, as a rational
easeInOut(x) ==
    Rat(sampleCurveY(solveCurveX(RoundDiv(x[1] * EaseScale, x[2]))), EaseScale)

\* The inputs easeInOut is applied to on its own: two inputs x1 <= x2, either
\* neighbours on the grid of the numbers or multiples of a tenth.
EaseInputs ==
    { << Rat(k, EaseScale), Rat(k + 1, EaseScale) >> : k \in 0..(EaseScale - 1) }
    \cup { << Rat(a, 10), Rat(b, 10) >> : a \in 0..10, b \in 0..10 }

\* easeInOut(x) for the next input x.
Ease ==
    /\ Len(eased) < Len(easeX)
    /\ LET x == easeX[Len(eased) + 1]
           fixed == RoundDiv(x[1] * EaseScale, x[2])
       IN  eased' = Append(eased,
                           [ y          |-> easeInOut(x),
                             iterations |-> solveCurveXFrom(fixed, fixed, 0).iterations ])
    /\ UNCHANGED << autoMotionNext, resolutionLog, projectVars, compositorVars,
                    motionVars, storageVars, exportVars, raceVars, easeX >>

InitEase ==
    /\ easeX \in { p \in EaseInputs : RLe(p[1], p[2]) }
    /\ eased = <<>>
    /\ autoMotionNext = "zoom-in"
    /\ resolutionLog = <<>>
    /\ projectClips = << >>
    /\ manifest = << >>
    /\ CompositorIdle
    /\ MotionIdle
    /\ StorageIdle
    /\ ExportIdle
    /\ RaceIdle

NextEase == Ease

SpecEase == InitEase /\ [][NextEase]_vars

\* ------------------------------------------------------------------------
\* Transform math
\* ------------------------------------------------------------------------

buildBaseMetrics(naturalWidth, naturalHeight) ==
    LET stageWidth == Int2Rat(VIEWPORT_WIDTH)
        stageHeight == Int2Rat(VIEWPORT_HEIGHT)
        baseScale == RMin(Rat(VIEWPORT_WIDTH, naturalWidth),
                          Rat(VIEWPORT_HEIGHT, naturalHeight))
        displayWidth == RMul(Int2Rat(naturalWidth), baseScale)
        displayHeight == RMul(Int2Rat(naturalHeight), baseScale)
    IN  [ stageWidth    |-> stageWidth,
          stageHeight   |-> stageHeight,
          displayWidth  |-> displayWidth,
          displayHeight |-> displayHeight,
          offsetX       |-> RDiv(RSub(stageWidth, displayWidth), Int2Rat(2)),
          offsetY       |-> RDiv(RSub(stageHeight, displayHeight), Int2Rat(2)),
          naturalWidth  |-> Int2Rat(naturalWidth),
          naturalHeight |-> Int2Rat(naturalHeight),
          baseScale     |-> baseScale ]

\* One axis of getKenBurnsTransform for scale # 1 without the re-clamping:
\* the translation that centers the origin in the stage.
axisTranslationUnclamped(origin, offset, display, stage, scale) ==
    RSub(RDiv(stage, Int2Rat(2)), origin)

\* One axis of getKenBurnsTransform for scale # 1: the translation that centers
\* the origin in the stage, re-clamped against the stage edges.
axisTranslation(origin, offset, display, stage, scale) ==
    LET translate == RSub(RDiv(stage, Int2Rat(2)), origin)
        scaledTopLeft == RAdd(RAdd(origin, RMul(RSub(offset, origin), scale)), translate)
        scaledBottomRight == RAdd(scaledTopLeft, RMul(display, scale))
        afterTopLeft == IF RLt(Zero, scaledTopLeft)
                        THEN RSub(translate, scaledTopLeft) ELSE translate
    IN  IF RLt(scaledBottomRight, stage)
        THEN RAdd(afterTopLeft, RSub(stage, scaledBottomRight))
        ELSE afterTopLeft

\* The translation is zero at every scale, as it is at scale 1.
getKenBurnsTransformUncentered(targetPoint, metrics, scale) ==
    [ translateX |-> Zero, translateY |-> Zero,
      originX |-> RAdd(metrics.offsetX,
                       RMul(RDiv(targetPoint.x, Int2Rat(100)), metrics.displayWidth)),
      originY |-> RAdd(metrics.offsetY,
                       RMul(RDiv(targetPoint.y, Int2Rat(100)), metrics.displayHeight)) ]

\* targetPoint and metrics are always given by generateFramesForImage, so the
\* guard of the first return is never taken.
getKenBurnsTransform(targetPoint, metrics, scale) ==
    LET originX == RAdd(metrics.offsetX,
                        RMul(RDiv(targetPoint.x, Int2Rat(100)), metrics.displayWidth))
        originY == RAdd(metrics.offsetY,
                        RMul(RDiv(targetPoint.y, Int2Rat(100)), metrics.displayHeight))
    IN  IF scale = One
        THEN [ translateX |-> Zero, translateY |-> Zero,
               originX |-> originX, originY |-> originY ]
        ELSE [ translateX |-> axisTranslation(originX, metrics.offsetX,
                                              metrics.displayWidth,
                                              metrics.stageWidth, scale),
               translateY |-> axisTranslation(originY, metrics.offsetY,
                                              metrics.displayHeight,
                                              metrics.stageHeight, scale),
               originX |-> originX, originY |-> originY ]

\* The coordinates of a numeric point are returned as they are given.
normalizeTargetPointUnclamped(targetPoint) ==
    IF ~targetPoint.present \/ ~IsFinite(targetPoint.x) \/ ~IsFinite(targetPoint.y)
    THEN [ x |-> Int2Rat(50), y |-> Int2Rat(50) ]
    ELSE [ x |-> targetPoint.x, y |-> targetPoint.y ]

\* A coordinate that is missing or not of type number is modelled as NaN.
normalizeTargetPoint(targetPoint) ==
    IF ~targetPoint.present \/ ~IsFinite(targetPoint.x) \/ ~IsFinite(targetPoint.y)
    THEN [ x |-> Int2Rat(50), y |-> Int2Rat(50) ]
    ELSE [ x |-> clamp(targetPoint.x, Zero, Int2Rat(100)),
           y |-> clamp(targetPoint.y, Zero, Int2Rat(100)) ]

computeCropRect(transform, metrics, scale) ==
    LET preTransformX ==
            RDiv(RSub(RNeg(transform.translateX),
                      RMul(RSub(One, scale), transform.originX)), scale)
        preTransformY ==
            RDiv(RSub(RNeg(transform.translateY),
                      RMul(RSub(One, scale), transform.originY)), scale)
        cropWidth == RDiv(RDiv(metrics.stageWidth, scale), metrics.baseScale)
        cropHeight == RDiv(RDiv(metrics.stageHeight, scale), metrics.baseScale)
        maxLeft == RMax(Zero, RSub(metrics.naturalWidth, cropWidth))
        maxTop == RMax(Zero, RSub(metrics.naturalHeight, cropHeight))
    IN  [ left   |-> clamp(RDiv(RSub(preTransformX, metrics.offsetX), metrics.baseScale),
                           Zero, maxLeft),
          top    |-> clamp(RDiv(RSub(preTransformY, metrics.offsetY), metrics.baseScale),
                           Zero, maxTop),
          width  |-> cropWidth,
          height |-> cropHeight ]

\* ------------------------------------------------------------------------
\* generateFramesForImage
\* ------------------------------------------------------------------------

\* The rectangle jumps to its end state instead of following the factor.
interpolateRectSnap(a, b, t) == b

interpolateRect(a, b, t) ==
    [ left   |-> RAdd(a.left, RMul(RSub(b.left, a.left), t)),
      top    |-> RAdd(a.top, RMul(RSub(b.top, a.top), t)),
      width  |-> RAdd(a.width, RMul(RSub(b.width, a.width), t)),
      height |-> RAdd(a.height, RMul(RSub(b.height, a.height), t)) ]

\* Everything generateFramesForImage computes before its frame loop.
renderLocals(size, config) ==
    LET workingWidth == IF size[1] * RENDER_OVERSAMPLE > 1
                        THEN size[1] * RENDER_OVERSAMPLE ELSE 1
        workingHeight == IF size[2] * RENDER_OVERSAMPLE > 1
                         THEN size[2] * RENDER_OVERSAMPLE ELSE 1
        metrics == buildBaseMetrics(workingWidth, workingHeight)
        duration == getSafeDuration(config.duration)
        targetZoom == getSafeZoom(config.zoom)
        targetPoint == normalizeTargetPoint(config.targetPoint)
        motionStyle == IF config.motionStyle # "" THEN config.motionStyle ELSE "ping-pong"
        frameCount == RCeil(RMul(duration, Int2Rat(FPS)))
        startZoom == IF motionStyle = "zoom-out" THEN targetZoom ELSE One
        endZoom == IF motionStyle = "zoom-out" THEN One ELSE targetZoom
        startTransform == getKenBurnsTransform(targetPoint, metrics, startZoom)
        endTransform == getKenBurnsTransform(targetPoint, metrics, endZoom)
    IN  [ workingWidth   |-> workingWidth,
          workingHeight  |-> workingHeight,
          metrics        |-> metrics,
          targetZoom     |-> targetZoom,
          targetPoint    |-> targetPoint,
          motionStyle    |-> motionStyle,
          totalFrames    |-> IF frameCount > 2 THEN frameCount ELSE 2,
          startZoom      |-> startZoom,
          endZoom        |-> endZoom,
          startTransform |-> startTransform,
          endTransform   |-> endTransform,
          startRect      |-> computeCropRect(startTransform, metrics, startZoom),
          endRect        |-> computeCropRect(endTransform, metrics, endZoom) ]

\* The zoom and crop rectangle of the frame at time normalized, computed by the
\* forward or by the backward branch of the ping-pong case (the frame loop
\* takes the forward branch when normalized <= 0.5).  The other motion styles
\* have one branch only.
frameState(L, forward, normalized) ==
    LET pingPong == L.motionStyle = "ping-pong"
        segmentProgress == IF forward THEN RDiv(normalized, Rat(1, 2))
                           ELSE RDiv(RSub(One, normalized), Rat(1, 2))
        easedProgress == IF pingPong THEN easeInOut(segmentProgress)
                         ELSE easeInOut(normalized)
        swap == pingPong /\ ~forward
        zoomStart == IF swap THEN L.endZoom ELSE L.startZoom
        zoomEnd == IF swap THEN L.startZoom ELSE L.endZoom
        rectStart == IF swap THEN L.endRect ELSE L.startRect
        rectEnd == IF swap THEN L.startRect ELSE L.endRect
    IN  [ easedProgress |-> easedProgress,
          currentZoom   |-> RAdd(zoomStart, RMul(RSub(zoomEnd, zoomStart), easedProgress)),
          cropRect      |-> interpolateRect(rectStart, rectEnd, easedProgress) ]

IntMin(a, b) == IF a < b THEN a ELSE b

IntMax(a, b) == IF a < b THEN b ELSE a

clampInt(value, min, max) == IntMin(IntMax(value, min), max)

\* The rounded rectangle is handed to extract without clamping.
extractRegionUnclamped(cropRect, workingWidth, workingHeight) ==
    [ left   |-> RFloor(cropRect.left),
      top    |-> RFloor(cropRect.top),
      width  |-> IntMax(1, RCeil(RAdd(cropRect.left, cropRect.width))
                              - RFloor(cropRect.left)),
      height |-> IntMax(1, RCeil(RAdd(cropRect.top, cropRect.height))
                              - RFloor(cropRect.top)) ]

\* The integer region handed to extract
extractRegion(cropRect, workingWidth, workingHeight) ==
    LET left == clampInt(RFloor(cropRect.left), 0, IntMax(0, workingWidth - 1))
        top == clampInt(RFloor(cropRect.top), 0, IntMax(0, workingHeight - 1))
        right == clampInt(RCeil(RAdd(cropRect.left, cropRect.width)), left + 1, workingWidth)
        bottom == clampInt(RCeil(RAdd(cropRect.top, cropRect.height)), top + 1, workingHeight)
    IN  [ left |-> left, top |-> top,
          width |-> IntMax(1, right - left), height |-> IntMax(1, bottom - top) ]

\* One iteration of the frame loop
renderFrame(L, normalized) ==
    LET st == frameState(L, RLe(normalized, Rat(1, 2)), normalized)
    IN  [ normalized  |-> normalized,
          currentZoom |-> st.currentZoom,
          cropRect    |-> st.cropRect,
          region      |-> extractRegion(st.cropRect, L.workingWidth, L.workingHeight) ]

\* The frame times are frame / totalFrames: the last frame stops short of 1.
fullSequenceOpenEnded(totalFrames) ==
    [ frame \in 1..totalFrames |-> Rat(frame - 1, totalFrames) ]

\* frameJobs of a full sequence: frame / (totalFrames - 1) for frame = 0 .. totalFrames - 1
fullSequence(totalFrames) ==
    [ frame \in 1..totalFrames |->
        IF totalFrames > 1 THEN Rat(frame - 1, totalFrames - 1) ELSE Zero ]

\* Width and height of the image files rendered
SourceSizes == { <<1920, 1080>>, <<1000, 1000>>, <<720, 1280>>, <<1920, 720>> }

Point(x, y) == [present |-> TRUE, x |-> Int2Rat(x), y |-> Int2Rat(y)]

DeclaredTargets ==
    { NoTarget, Point(50, 50), Point(0, 0), Point(100, 100), Point(25, 80),
      Point(40, 60), Point(150, -10), [ present |-> TRUE, x |-> NaN, y |-> Int2Rat(30) ] }

DeclaredZooms == { NaN, One, Rat(6, 5), Int2Rat(2), Rat(1, 2) }

\* Durations that are not a whole number of frames, and the default duration.
LongDurations == { Rat(1, 200), Rat(7, 100), Int2Rat(DEFAULT_DURATION) }

DeclaredImage ==
    [ duration     : { Rat(k, FPS) : k \in 1..MaxFrames },
      fadeDuration : { NaN },
      zoom         : DeclaredZooms,
      motionStyle  : { "", "zoom-in", "zoom-out", "ping-pong" },
      targetPoint  : DeclaredTargets ]
    \cup
    [ duration     : LongDurations,
      fadeDuration : { NaN },
      zoom         : { Int2Rat(2) },
      motionStyle  : { "zoom-in", "ping-pong" },
      targetPoint  : { Point(25, 80) } ]

\* The handler resolves the declared config of the image.
ResolveImage ==
    /\ mpc = "request"
    /\ UNCHANGED besidesMotion
    /\ IF handler = "export-video"
       THEN LET r == resolvePlanWithDefaults(<< declaredConfig >>, 1, autoMotionNext)
            IN  /\ imageConfig' = r[1][1]
                /\ autoMotionNext' = r[2]
                /\ options' = NaN
       ELSE LET resolved == resolveConfigWithDefaults(declaredConfig, BASE_DEFAULT_CONFIG)
            IN  /\ imageConfig' =
                      IF resolved.targetPoint.present THEN resolved
                      ELSE [resolved EXCEPT !.targetPoint = Point(50, 50)]
                /\ options' = IF resolved.motionStyle = "ping-pong" THEN Rat(1, 2)
                              ELSE IF resolved.motionStyle = "zoom-out" THEN Zero
                              ELSE One
                /\ UNCHANGED autoMotionNext
    /\ mpc' = "resolved"
    /\ UNCHANGED << handler, sourceSize, declaredConfig, locals, frameJobs, frames >>

\* generateFramesForImage up to its frame loop
GenerateFrames ==
    /\ mpc = "resolved"
    /\ UNCHANGED besidesMotion
    /\ LET L == renderLocals(sourceSize, imageConfig)
       IN  /\ locals' = L
           /\ frameJobs' = IF IsFinite(options)
                           THEN << clamp(options, Zero, One) >>
                           ELSE fullSequence(L.totalFrames)
    /\ mpc' = "frames"
    /\ UNCHANGED << autoMotionNext, handler, sourceSize, declaredConfig, imageConfig,
                    options, frames >>

\* The frame loop renders the next frame; the function returns after the last.
RenderFrame ==
    /\ mpc = "frames"
    /\ UNCHANGED besidesMotion
    /\ frames' = Append(frames, renderFrame(locals, Head(frameJobs)))
    /\ frameJobs' = Tail(frameJobs)
    /\ mpc' = IF Len(frameJobs) = 1 THEN "done" ELSE "frames"
    /\ UNCHANGED << autoMotionNext, handler, sourceSize, declaredConfig, imageConfig,
                    options, locals >>

InitMotion ==
    /\ handler \in { "export-video", "export-frame" }
    /\ sourceSize \in SourceSizes
    /\ declaredConfig \in DeclaredImage
    /\ autoMotionNext \in { "zoom-in", "zoom-out" }
    /\ resolutionLog = <<>>
    /\ projectClips = << >>
    /\ manifest = << >>
    /\ imageConfig = <<>>
    /\ options = NaN
    /\ mpc = "request"
    /\ locals = <<>>
    /\ frameJobs = <<>>
    /\ frames = <<>>
    /\ CompositorIdle
    /\ StorageIdle
    /\ ExportIdle
    /\ RaceIdle
    /\ EaseIdle

NextMotion ==
    \/ ResolveImage
    \/ GenerateFrames
    \/ RenderFrame

SpecMotion == InitMotion /\ [][NextMotion]_vars

\* ------------------------------------------------------------------------
\* Plan resolutions, one request after the other
\* ------------------------------------------------------------------------

\* Declared configs without and with a focus target, without and with a motion
\* style of their own
ResolveConfigs ==
    [ duration     : { NaN },
      fadeDuration : { NaN },
      zoom         : { NaN },
      motionStyle  : { "", "zoom-out", "ping-pong" },
      targetPoint  : { NoTarget, Point(25, 80) } ]

\* regenerate-clip resolves its merged config: the pair of the resolved config
\* and settings.autoMotion.next afterwards
resolveRegenerated(mergedConfig, next) ==
    LET resolvedConfig == resolveConfigWithDefaults(mergedConfig, BASE_DEFAULT_CONFIG)
        nextMotion == IF next = "zoom-out" THEN "zoom-out" ELSE "zoom-in"
    IN  IF ~resolvedConfig.targetPoint.present
        THEN << [ resolvedConfig EXCEPT
                    !.targetPoint = [ present |-> TRUE,
                                      x |-> Int2Rat(50), y |-> Int2Rat(50) ],
                    !.motionStyle = nextMotion ],
                OtherMotion(nextMotion) >>
        ELSE << resolvedConfig, next >>

\* What a plan resolution leaves alone
besidesResolve ==
    << projectVars, clipPathsGiven, clipPaths, useNvenc, cpc, codec, i, runningOutputDuration,
       filterChain, attempts, errors, finalOutput, motionVars, storageVars, exportVars,
       raceVars, easeVars >>

\* An export-video request loads the settings, resolves its plan and saves the
\* settings.
ResolveExportPlan(declaredPlan) ==
    /\ Len(resolutionLog) + Len(declaredPlan) <= MaxResolved
    /\ LET r == resolvePlanWithDefaults(declaredPlan, Len(declaredPlan), autoMotionNext)
       IN  /\ request' = declaredPlan
           /\ plan' = r[1]
           /\ autoMotionNext' = r[2]
           /\ resolutionLog' =
                 resolutionLog \o [ k \in 1..Len(declaredPlan) |->
                                      [ declared |-> declaredPlan[k], config |-> r[1][k] ] ]
    /\ UNCHANGED besidesResolve

\* A regenerate-clip request loads the settings, resolves the merged config of
\* its image and saves the settings.
ResolveRegenerate(mergedConfig) ==
    /\ Len(resolutionLog) + 1 <= MaxResolved
    /\ LET r == resolveRegenerated(mergedConfig, autoMotionNext)
       IN  /\ request' = << mergedConfig >>
           /\ plan' = << r[1] >>
           /\ autoMotionNext' = r[2]
           /\ resolutionLog' = Append(resolutionLog,
                                      [ declared |-> mergedConfig, config |-> r[1] ])
    /\ UNCHANGED besidesResolve

\* SETTINGS_DEFAULTS.autoMotion.next: there is no settings file yet.
InitResolve ==
    /\ autoMotionNext = "zoom-in"
    /\ resolutionLog = <<>>
    /\ projectClips = << >>
    /\ manifest = << >>
    /\ CompositorIdle
    /\ MotionIdle
    /\ StorageIdle
    /\ ExportIdle
    /\ RaceIdle
    /\ EaseIdle

NextResolve ==
    \/ \E declaredPlan \in { q \in SeqsUpTo(ResolveConfigs, 2) : Len(q) >= 1 } :
          ResolveExportPlan(declaredPlan)
    \/ \E mergedConfig \in ResolveConfigs : ResolveRegenerate(mergedConfig)

SpecResolve == InitResolve /\ [][NextResolve]_vars

\* ------------------------------------------------------------------------
\* Exports of one project, one after the other
\* ------------------------------------------------------------------------

\* req.body.plan of an export of the project: images with distinct ids in the
\* order the user has given them, each with the duration of its config.
ProjectPlans ==
    { q \in SeqsUpTo([ id : { "a", "b", "c" }, duration : { Int2Rat(3), Int2Rat(6) } ],
                     MaxImages) :
        /\ Len(q) >= 1
        /\ \A j \in 1..Len(q) : \A k \in 1..Len(q) : j # k => q[j].id # q[k].id }

\* candidate.clipFile || manifestEntry?.clipFile, found through the id of the
\* image: the number of the file clips/clip-<number>.mp4, or -1 for none
manifestClipFile(images, id) ==
    LET hits == { k \in 1..Len(images) : images[k].id = id }
    IN  IF hits = {} THEN -1 ELSE images[CHOOSE k \in hits : TRUE].clipFile

\* The image at position k of the plan (index k - 1) is rendered: it is in
\* indicesToRender, or the clip file named for it does not exist.
shouldRender(declaredPlan, mode, k) ==
    \/ mode = "all"
    \/ manifestClipFile(manifest, declaredPlan[k].id) \notin DOMAIN projectClips

\* archiveClipsAndFinal after its first k iterations: clipTempPaths[i] is copied
\* to clips/clip-<i>.mp4 unless it is that file.
RECURSIVE archiveClipsAndFinal(_, _, _, _)
archiveClipsAndFinal(files, clipTempPaths, temp, k) ==
    IF k = 0 THEN files
    ELSE LET before == archiveClipsAndFinal(files, clipTempPaths, temp, k - 1)
             tempClip == clipTempPaths[k]
             source == IF tempClip.from = "temp"
                       THEN ( CHOOSE c \in temp : c.index = tempClip.index ).holds
                       ELSE before[tempClip.index]
         IN  IF tempClip.from = "project" /\ tempClip.index = k - 1
             THEN before
             ELSE [ n \in DOMAIN before \cup { k - 1 } |->
                      IF n = k - 1 THEN source ELSE before[n] ]

\* What an export of the project leaves alone
besidesProject ==
    << autoMotionNext, resolutionLog, clipPathsGiven, useNvenc, codec, i,
       runningOutputDuration, filterChain, attempts, errors, finalOutput, motionVars,
       framesDir, archived, renderRange, indicesToRender, imageIndex, generated,
       clipAttempts, clipErrors, failure, manifestSaved, response, raceVars, easeVars >>

\* export-video in mode 'all' or 'missing' up to the merge: every image is
\* rendered into a temp clip or has the clip file its manifest entry names
\* put on the clip list, and combineClips merges the list with the durations
\* of the plan.
RenderProjectClips(declaredPlan, mode) ==
    /\ cpc = "idle"
    /\ request' = declaredPlan
    /\ plan' = declaredPlan
    /\ renderMode' = mode
    /\ clipPaths' =
          [ k \in 1..Len(declaredPlan) |->
              IF shouldRender(declaredPlan, mode, k) THEN ClipPath(k - 1, "temp")
              ELSE ClipPath(manifestClipFile(manifest, declaredPlan[k].id), "project") ]
    /\ tempClips' =
          { [ index |-> k - 1, holds |-> declaredPlan[k] ] :
              k \in { j \in 1..Len(declaredPlan) : shouldRender(declaredPlan, mode, j) } }
    /\ cpc' = "combined"
    /\ UNCHANGED << projectVars, besidesProject >>

\* archiveClipsAndFinal, saveManifest and the removal of TEMP_DIR
ArchiveAndSave ==
    /\ cpc = "combined"
    /\ projectClips' = archiveClipsAndFinal(projectClips, clipPaths, tempClips,
                                            Len(clipPaths))
    /\ manifest' = [ k \in 1..Len(plan) |->
                       [ id |-> plan[k].id, clipFile |-> k - 1,
                         duration |-> plan[k].duration ] ]
    /\ tempClips' = {}
    /\ cpc' = "idle"
    /\ UNCHANGED << request, plan, renderMode, clipPaths, besidesProject >>

\* A project that has not been exported yet
InitProject ==
    /\ autoMotionNext = "zoom-in"
    /\ resolutionLog = <<>>
    /\ projectClips = << >>
    /\ manifest = << >>
    /\ CompositorIdle
    /\ MotionIdle
    /\ StorageIdle
    /\ ExportIdle
    /\ RaceIdle
    /\ EaseIdle

NextProject ==
    \/ \E declaredPlan \in ProjectPlans, mode \in { "all", "missing" } :
          RenderProjectClips(declaredPlan, mode)
    \/ ArchiveAndSave

SpecProject == InitProject /\ [][NextProject]_vars

\* ------------------------------------------------------------------------
\* The preview of the browser
\* ------------------------------------------------------------------------

\* The zoom the animation of MainViewer.handlePreview sets at progress (elapsed
\* time over duration, capped at 1) for config.motionStyle and config.zoom
handlePreviewZoom(configMotionStyle, configZoom, progress) ==
    LET motionStyle == IF configMotionStyle # "" THEN configMotionStyle ELSE "ping-pong"
        startZoom == IF motionStyle = "zoom-out" THEN configZoom ELSE One
        endZoom == IF motionStyle = "zoom-out" THEN One ELSE configZoom
        pingPongProgress == IF RLt(progress, Rat(1, 2))
                            THEN RMul(progress, Int2Rat(2))
                            ELSE RMul(RSub(One, progress), Int2Rat(2))
        easedValue == IF motionStyle = "ping-pong" THEN easeInOut(pingPongProgress)
                      ELSE easeInOut(progress)
    IN  RAdd(startZoom, RMul(RSub(endZoom, startZoom), easedValue))

\* ------------------------------------------------------------------------
\* POST /api/export-video, step by step
\* ------------------------------------------------------------------------

\* Number(value) of a declared value that is Infinity
PosInf == <<1, 0>>

ExportConfig(duration, zoom) ==
    [ duration     |-> duration,
      fadeDuration |-> NaN,
      zoom         |-> zoom,
      motionStyle  |-> "",
      targetPoint  |-> NoTarget ]

\* Declared configs with a duration and a zoom that are zero, negative, not
\* numeric (NaN stands for every value Number() turns into NaN), not finite, or
\* valid.  A plan is a run of neighbours of this list.
ExportRoll ==
    << ExportConfig(Zero, NaN),
       ExportConfig(Rat(1, 10), Rat(6, 5)),
       ExportConfig(Int2Rat(-3), PosInf),
       ExportConfig(NaN, Zero),
       ExportConfig(Rat(1, 15), Int2Rat(2)),
       ExportConfig(PosInf, Rat(-1, 2)) >>

ExportPlans ==
    { SubSeq(ExportRoll, w[1], w[1] + w[2] - 1) :
        w \in { v \in (1..Len(ExportRoll)) \X (1..MaxImages) :
                  v[1] + v[2] - 1 <= Len(ExportRoll) } }

\* sourceMetadata of the images of an export
ExportSourceSize == << 1920, 1080 >>

\* entry.fileName of the image at a plan index
FileName(index) == << "image", index >>

\* A frame file img-<index>-frame-<frame>.png written by request by (0: by an
\* earlier render).
FrameFile(index, frame, by) == [ index |-> index, frame |-> frame, by |-> by ]

\* What an earlier render that was aborted left under TEMP_DIR.
StaleStorage ==
    { [ frames |-> {}, clips |-> {} ],
      [ frames |-> { FrameFile(0, f, 0) : f \in 0..3 },
        clips  |-> {} ],
      [ frames |-> { FrameFile(1, f, 0) : f \in { 0, 1, 250 } },
        clips  |-> { [ index |-> 0, by |-> 0, codec |-> CPU_FALLBACK_CODEC,
                       length |-> One, frames |-> {} ] } ] }

\* A token of the range text (the text split at commas, trimmed, empty tokens
\* dropped): its parts split at '-', each part given as what parseInt makes of
\* it, the set of the one integer parsed or the empty set for NaN.
Single(n) == << { n } >>

Span(a, b) == << { a }, { b } >>

\* '1-4,6'; '2,7'; a span given backwards; a span without its end and a word
RangeTexts ==
    { << Span(1, 4), Single(6) >>,
      << Single(2), Single(7) >>,
      << Span(2, 1) >>,
      << << { 2 }, {} >>, << {} >> >> }

\* renderMode, the tokens of renderRange, and the plan indices whose clip is in
\* the project, for a plan of n images.
ExportScopes(n) ==
    { [ mode |-> "all", range |-> <<>>, archived |-> a ] : a \in { {}, 0..(n - 1) } }
    \cup { [ mode |-> "missing", range |-> <<>>, archived |-> a ] : a \in SUBSET (0..(n - 1)) }
    \cup { [ mode |-> "range", range |-> r, archived |-> 0..(n - 1) ] :
             r \in RangeTexts \cup { <<>> } }
    \cup { [ mode |-> "range", range |-> << Single(1) >>, archived |-> a ] :
             a \in { {}, 0..(n - 1) } }

\* The numbers a token adds to values
tokenValues(token) ==
    IF Len(token) >= 2
    THEN IF token[1] # {} /\ token[2] # {}
         THEN LET start == CHOOSE v \in token[1] : TRUE
                  end == CHOOSE v \in token[2] : TRUE
              IN  IntMin(start, end)..IntMax(start, end)
         ELSE {}
    ELSE token[1]

\* The numbers of the text are taken as plan indices as they are.
parseRenderRangeZeroBased(tokens, total) ==
    { value \in UNION { tokenValues(tokens[k]) : k \in 1..Len(tokens) } :
         value >= 0 /\ value < total }

parseRenderRange(tokens, total) ==
    LET values == UNION { tokenValues(tokens[k]) : k \in 1..Len(tokens) }
    IN  { value - 1 : value \in { v \in values : v - 1 >= 0 /\ v - 1 < total } }

\* Nothing is deleted.
cleanupSkipped(dir, index) == dir

cleanupFramesForIndex(dir, index) == { f \in dir : f.index # index }

\* The message of the error names no file.
imageErrorAnonymous(text, fileName) == << text >>

\* new Error(`${text}${fileName}`)
imageError(text, fileName) == << text, fileName >>

\* Every image but the first is skipped: the loop ends after one iteration.
afterImageEnd(index, total) == "clips"

\* i++ with i < resolvedPlan.length: the next iteration, or combineClips
afterImage(index, total) == IF index + 1 < total THEN "prepare" ELSE "clips"

\* fsp.rm(TEMP_DIR, { recursive: true, force: true }) and the ensureDirectory calls
SetupTemp ==
    /\ cpc = "received"
    /\ framesDir' = {}
    /\ tempClips' = {}
    /\ cpc' = "request"
    /\ UNCHANGED << besidesExport, clipPaths, exportVars >>

\* alwaysMissing and indicesToRender; an empty range is answered with 400.
SelectIndices ==
    /\ cpc = "resolved"
    /\ LET total == Len(plan)
           alwaysMissing == (0..(total - 1)) \ archived
           selected == IF renderMode = "missing" THEN alwaysMissing
                       ELSE IF renderMode = "range"
                            THEN parseRenderRange(renderRange, total) \cup alwaysMissing
                            ELSE 0..(total - 1)
       IN  /\ indicesToRender' = selected
           /\ IF renderMode = "range" /\ selected = {}
              THEN /\ cpc' = "responded"
                   /\ response' = [ status  |-> 400,
                                    message |-> << "No matching clips found for the requested range." >> ]
              ELSE /\ cpc' = "prepare"
                   /\ UNCHANGED response
    /\ UNCHANGED << besidesExport, clipPaths, storageVars, archived, renderMode,
                    renderRange, imageIndex, generated, clipAttempts, clipErrors,
                    failure, manifestSaved >>

\* prepareProjectImage (found: the source file exists), then shouldRender: an
\* image that is not rendered has its clip in the project pushed on the list.
PrepareImage(found) ==
    /\ cpc = "prepare"
    /\ IF ~found
       THEN /\ failure' = [ stage   |-> "prepare",
                            index   |-> imageIndex,
                            message |-> imageError("Source image not found for ",
                                                   FileName(imageIndex)) ]
            /\ cpc' = "error"
            /\ UNCHANGED << clipPaths, imageIndex >>
       ELSE IF imageIndex \in indicesToRender \/ imageIndex \notin archived
       THEN /\ cpc' = "cleanup"
            /\ UNCHANGED << clipPaths, imageIndex, failure >>
       ELSE /\ clipPaths' = Append(clipPaths, ClipPath(imageIndex, "project"))
            /\ imageIndex' = imageIndex + 1
            /\ cpc' = afterImage(imageIndex, Len(plan))
            /\ UNCHANGED failure
    /\ UNCHANGED << besidesExport, storageVars, archived, renderMode, renderRange,
                    indicesToRender, generated, clipAttempts, clipErrors,
                    manifestSaved, response >>

\* cleanupFramesForIndex(i) before the frames of image i are generated
CleanupBefore ==
    /\ cpc = "cleanup"
    /\ framesDir' = cleanupFramesForIndex(framesDir, imageIndex)
    /\ cpc' = "generate"
    /\ UNCHANGED << besidesExport, clipPaths, tempClips, exportVars >>

\* generateFramesForImage(preparedImage, i) for a full sequence: the image is
\* read ("unreadable": no candidate path can be read), its dimensions are taken
\* ("nodims": there are none) and the frames are written; the handler then calls
\* createClipFromFrames, which hands the frames to the preferred codec.
GenerateImageFrames(outcome) ==
    /\ cpc = "generate"
    /\ IF outcome = "ok"
       THEN LET L == renderLocals(ExportSourceSize, plan[imageIndex + 1])
            IN  /\ generated' = Append(generated,
                                       [ index  |-> imageIndex,
                                         frames |-> L.totalFrames,
                                         zoom   |-> L.targetZoom ])
                /\ framesDir' = framesDir \cup
                       { FrameFile(imageIndex, f, 1) : f \in 0..(L.totalFrames - 1) }
                /\ clipAttempts' = << preferredCodec >>
                /\ clipErrors' = <<>>
                /\ cpc' = "clip"
                /\ UNCHANGED failure
       ELSE /\ generated' = Append(generated,
                                   [ index |-> imageIndex, frames |-> 0, zoom |-> NaN ])
            /\ failure' =
                  [ stage   |-> "read",
                    index   |-> imageIndex,
                    message |-> IF outcome = "unreadable"
                                THEN imageError("Failed to read image file: ",
                                                FileName(imageIndex))
                                ELSE imageError("Unable to read dimensions for ",
                                                FileName(imageIndex)) ]
            /\ cpc' = "error"
            /\ UNCHANGED << framesDir, clipAttempts, clipErrors >>
    /\ UNCHANGED << besidesExport, clipPaths, tempClips, archived, renderMode,
                    renderRange, indicesToRender, imageIndex, manifestSaved, response >>

\* The "end" event of the clip encoder: clip-<i>.mp4 is written from the frames
\* of image i, its path is pushed on the list.
ClipEncodeEnd ==
    /\ cpc = "clip"
    /\ tempClips' = { c \in tempClips : c.index # imageIndex } \cup
          { [ index  |-> imageIndex,
              by     |-> 1,
              codec  |-> clipAttempts[Len(clipAttempts)],
              length |-> getSafeDuration(plan[imageIndex + 1].duration),
              frames |-> { << f.frame, f.by >> : f \in { g \in framesDir : g.index = imageIndex } } ] }
    /\ clipPaths' = Append(clipPaths, ClipPath(imageIndex, "temp"))
    /\ cpc' = "clip-done"
    /\ UNCHANGED << besidesExport, framesDir, exportVars >>

\* The "error" event of the clip encoder, and the catch of createClipFromFrames
ClipEncodeError(err) ==
    /\ cpc = "clip"
    /\ clipErrors' = Append(clipErrors, err)
    /\ IF Len(clipAttempts) = 1 /\ useNvenc /\ isCodecUnavailableError(err)
       THEN /\ clipAttempts' = Append(clipAttempts, CPU_FALLBACK_CODEC)
            /\ UNCHANGED << cpc, failure >>
       ELSE /\ failure' = [ stage   |-> "encode",
                            index   |-> imageIndex,
                            message |-> << "encoder error", err >> ]
            /\ cpc' = "error"
            /\ UNCHANGED clipAttempts
    /\ UNCHANGED << besidesExport, clipPaths, storageVars, archived, renderMode,
                    renderRange, indicesToRender, imageIndex, generated,
                    manifestSaved, response >>

\* cleanupFramesForIndex(i) after the clip of image i is encoded; the loop goes on.
CleanupAfter ==
    /\ cpc = "clip-done"
    /\ framesDir' = cleanupFramesForIndex(framesDir, imageIndex)
    /\ imageIndex' = imageIndex + 1
    /\ cpc' = afterImage(imageIndex, Len(plan))
    /\ UNCHANGED << besidesExport, clipPaths, tempClips, archived, renderMode,
                    renderRange, indicesToRender, generated, clipAttempts, clipErrors,
                    failure, manifestSaved, response >>

\* After combineClips: archiveClipsAndFinal, saveManifest, fsp.rm(TEMP_DIR), 200.
FinishExport ==
    /\ cpc = "done"
    /\ archived' = 0..(Len(plan) - 1)
    /\ manifestSaved' = TRUE
    /\ framesDir' = {}
    /\ tempClips' = {}
    /\ response' = [ status |-> 200, message |-> << "Export complete" >> ]
    /\ cpc' = "responded"
    /\ UNCHANGED << besidesExport, clipPaths, renderMode, renderRange, indicesToRender,
                    imageIndex, generated, clipAttempts, clipErrors, failure >>

\* The catch of the handler: 500 with the message of the error.
ExportFailed ==
    /\ cpc \in { "error", "failed" }
    /\ response' =
          [ status  |-> 500,
            message |-> << "Export failed: " >> \o
                        ( IF cpc = "error" THEN failure.message
                          ELSE IF errors = <<>>
                               THEN << "No clips were generated to combine." >>
                               ELSE << "encoder error", errors[Len(errors)] >> ) ]
    /\ cpc' = "responded"
    /\ UNCHANGED << besidesExport, clipPaths, storageVars, archived, renderMode,
                    renderRange, indicesToRender, imageIndex, generated,
                    clipAttempts, clipErrors, failure, manifestSaved >>

InitExport ==
    /\ request \in ExportPlans
    /\ autoMotionNext = "zoom-in"
    /\ resolutionLog = <<>>
    /\ projectClips = << >>
    /\ manifest = << >>
    /\ plan = <<>>
    /\ clipPathsGiven = TRUE
    /\ clipPaths = <<>>
    /\ useNvenc \in BOOLEAN
    /\ cpc = "received"
    /\ codec = ""
    /\ i = 0
    /\ runningOutputDuration = Zero
    /\ filterChain = <<>>
    /\ attempts = <<>>
    /\ errors = <<>>
    /\ finalOutput = "none"
    /\ \E stale \in StaleStorage :
          /\ framesDir = stale.frames
          /\ tempClips = stale.clips
    /\ \E scope \in ExportScopes(Len(request)) :
          /\ renderMode = scope.mode
          /\ renderRange = scope.range
          /\ archived = scope.archived
    /\ indicesToRender = {}
    /\ imageIndex = 0
    /\ generated = <<>>
    /\ clipAttempts = <<>>
    /\ clipErrors = <<>>
    /\ failure = NoFailure
    /\ manifestSaved = FALSE
    /\ response = NoResponse
    /\ MotionIdle
    /\ RaceIdle
    /\ EaseIdle

NextExport ==
    \/ SetupTemp
    \/ ResolvePlan
    \/ SelectIndices
    \/ \E found \in BOOLEAN : PrepareImage(found)
    \/ CleanupBefore
    \/ \E outcome \in { "ok", "unreadable", "nodims" } : GenerateImageFrames(outcome)
    \/ ClipEncodeEnd
    \/ \E err \in EncoderErrors : ClipEncodeError(err)
    \/ CleanupAfter
    \/ CombineClips
    \/ BuildStep
    \/ RunEncoder
    \/ EncodeEnd
    \/ \E err \in EncoderErrors : EncodeError(err)
    \/ FinishExport
    \/ ExportFailed

SpecExport == InitExport /\ [][NextExport]_vars

\* ------------------------------------------------------------------------
\* Two render requests handled at once
\* ------------------------------------------------------------------------

\* The handlers are async functions on one event loop: between two awaits of
\* one request the steps of another may run.  All render routes share TEMP_DIR.
Requests == 1..2

\* A render request: its route and the plan indices it renders, in order
RaceCall(route, images) == [ route |-> route, images |-> images ]

\* export-video of a plan of two images (renderMode all); regenerate-clip and
\* export-frame of either image
RaceCalls ==
    { RaceCall("export-video", << 0, 1 >>) }
        \cup { RaceCall(route, << index >>) :
                  route \in { "regenerate-clip", "export-frame" }, index \in 0..1 }

\* The plan index request r is working on
currentIndex(r) == calls[r].images[rIndex[r] + 1]

\* The files ffmpeg reads for the pattern img-<index>-frame-%04d.png: frame 0
\* and its successors up to the first missing number.
framesOfPattern(dir, index) ==
    { f \in dir : /\ f.index = index
                  /\ \A g \in 0..f.frame : \E h \in dir : h.index = index /\ h.frame = g }

\* What a step of one of the two requests leaves alone, besides the variables
\* of the requests and the transient storage.
besidesRace ==
    << autoMotionNext, resolutionLog, projectVars, compositorVars, motionVars, exportVars, easeVars >>

\* fsp.rm(TEMP_DIR, { recursive: true, force: true }) and the ensureDirectory
\* calls at the start of each of the three handlers
RaceSetupTemp(r) ==
    /\ rpc[r] = "received"
    /\ framesDir' = {}
    /\ tempClips' = {}
    /\ rpc' = [ rpc EXCEPT ![r] = "cleanup" ]
    /\ UNCHANGED << calls, rIndex, rFrame, framesRead, besidesRace >>

\* cleanupFramesForIndex(imageIndex) before generateFramesForImage
RaceCleanupBefore(r) ==
    /\ rpc[r] = "cleanup"
    /\ framesDir' = cleanupFramesForIndex(framesDir, currentIndex(r))
    /\ rFrame' = [ rFrame EXCEPT ![r] = 0 ]
    /\ rpc' = [ rpc EXCEPT ![r] =
                  IF calls[r].route = "export-frame" THEN "single" ELSE "generate" ]
    /\ UNCHANGED << calls, rIndex, framesRead, tempClips, besidesRace >>

\* generateFramesForImage writes one frame: await ... .toFile(outputPath); a
\* file of the same name is overwritten.
RaceWriteFrame(r) ==
    /\ rpc[r] = "generate"
    /\ LET index == currentIndex(r)
           frame == rFrame[r]
       IN  /\ framesDir' = { f \in framesDir : ~( f.index = index /\ f.frame = frame ) }
                              \cup { FrameFile(index, frame, r) }
           /\ rFrame' = [ rFrame EXCEPT ![r] = frame + 1 ]
           /\ rpc' = [ rpc EXCEPT ![r] =
                         IF frame + 1 < RaceFrames THEN "generate" ELSE "clip" ]
    /\ UNCHANGED << calls, rIndex, framesRead, tempClips, besidesRace >>

\* generateFramesForImage of export-frame writes its one frame to EXPORTS_DIR.
RaceSingleFrame(r) ==
    /\ rpc[r] = "single"
    /\ rpc' = [ rpc EXCEPT ![r] = "cleanup-after" ]
    /\ UNCHANGED << calls, rIndex, rFrame, framesRead, storageVars, besidesRace >>

\* createClipFromFrames(imageIndex, duration): ffmpeg reads the frame files
\* that match the pattern and writes clip-<index>.mp4 over any file of that
\* name; with no frame to read it fails and the handler's catch answers 500.
RaceEncodeClip(r) ==
    /\ rpc[r] = "clip"
    /\ LET index == currentIndex(r)
           read == framesOfPattern(framesDir, index)
       IN  /\ framesRead' = [ framesRead EXCEPT ![r] =
                                 Append(@, [ index |-> index, frames |-> read ]) ]
           /\ IF read = {}
              THEN /\ rpc' = [ rpc EXCEPT ![r] = "failed" ]
                   /\ UNCHANGED tempClips
              ELSE /\ rpc' = [ rpc EXCEPT ![r] = "cleanup-after" ]
                   /\ tempClips' = { c \in tempClips : c.index # index }
                                       \cup { [ index |-> index, by |-> r, frames |-> read ] }
    /\ UNCHANGED << calls, rIndex, rFrame, framesDir, besidesRace >>

\* cleanupFramesForIndex(imageIndex) after the clip (or the single frame); the
\* loop of export-video goes on, the other routes have one image.
RaceCleanupAfter(r) ==
    /\ rpc[r] = "cleanup-after"
    /\ framesDir' = cleanupFramesForIndex(framesDir, currentIndex(r))
    /\ rIndex' = [ rIndex EXCEPT ![r] = @ + 1 ]
    /\ rpc' = [ rpc EXCEPT ![r] =
                  IF rIndex[r] + 1 < Len(calls[r].images) THEN "cleanup"
                  ELSE IF calls[r].route = "export-frame" THEN "done"
                  ELSE "combine" ]
    /\ UNCHANGED << calls, rFrame, framesRead, tempClips, besidesRace >>

\* The clips of the images request r rendered that are in CLIPS_DIR
ownClipsPresent(r) ==
    \A k \in 1..Len(calls[r].images) : \E c \in tempClips : c.index = calls[r].images[k]

\* combineClips(clipPaths, plan) and archiveClipsAndFinal read the temp clips of
\* the rendered images; a missing clip makes ffmpeg or the copy fail.
RaceCombine(r) ==
    /\ rpc[r] = "combine"
    /\ rpc' = [ rpc EXCEPT ![r] = IF ownClipsPresent(r) THEN "archived" ELSE "failed" ]
    /\ UNCHANGED << calls, rIndex, rFrame, framesRead, storageVars, besidesRace >>

\* saveManifest, fsp.rm(TEMP_DIR, ...) and the answer
RaceFinish(r) ==
    /\ rpc[r] = "archived"
    /\ framesDir' = {}
    /\ tempClips' = {}
    /\ rpc' = [ rpc EXCEPT ![r] = "done" ]
    /\ UNCHANGED << calls, rIndex, rFrame, framesRead, besidesRace >>

InitRace ==
    /\ calls \in [ Requests -> RaceCalls ]
    /\ rpc = [ r \in Requests |-> "received" ]
    /\ rIndex = [ r \in Requests |-> 0 ]
    /\ rFrame = [ r \in Requests |-> 0 ]
    /\ framesRead = [ r \in Requests |-> <<>> ]
    /\ autoMotionNext = "zoom-in"
    /\ resolutionLog = <<>>
    /\ projectClips = << >>
    /\ manifest = << >>
    /\ CompositorIdle
    /\ MotionIdle
    /\ StorageIdle
    /\ ExportIdle
    /\ EaseIdle

NextRace ==
    \E r \in Requests :
        \/ RaceSetupTemp(r)
        \/ RaceCleanupBefore(r)
        \/ RaceWriteFrame(r)
        \/ RaceSingleFrame(r)
        \/ RaceEncodeClip(r)
        \/ RaceCleanupAfter(r)
        \/ RaceCombine(r)
        \/ RaceFinish(r)

SpecRace == InitRace /\ [][NextRace]_vars

\* ------------------------------------------------------------------------
\* Properties of the compositor
\* ------------------------------------------------------------------------

\* d[k]: the duration combineClips uses for clip k (1-based).
ClipDuration(k) == getSafeDuration(plan[k].duration)

RECURSIVE SumDurations(_)
SumDurations(k) == IF k = 0 THEN Zero ELSE RAdd(SumDurations(k - 1), ClipDuration(k))

\* Sum of the effective fades of the first k emitted cross-fades.
RECURSIVE SumFades(_)
SumFades(k) == IF k = 0 THEN Zero ELSE RAdd(SumFades(k - 1), filterChain[k].duration)

\* buildCommand is running or has run on a plan of at least two clips.
InBuild == cpc \in {"build", "encoding", "done", "failed"} /\ Len(plan) >= 2

\* The loop of buildCommand has emitted every cross-fade.
LoopDone == InBuild /\ i = Len(plan) - 1

SixSixSix ==
    /\ Len(plan) = 3
    /\ \A k \in 1..3 : /\ plan[k].duration = Int2Rat(6)
                        /\ plan[k].fadeDuration = Rat(1, 2)

\* C1 as stated: on three clips of 6 s with fadeDuration 0.5 s each,
\* combineClips emits the cross-fade offsets 5.5 and 10.5, in that order, and
\* ends with runningOutputDuration = 17.
C1_Original ==
    (SixSixSix /\ LoopDone) =>
        /\ Len(filterChain) = 2
        /\ filterChain[1].offset = Rat(11, 2)
        /\ filterChain[2].offset = Rat(21, 2)
        /\ runningOutputDuration = Int2Rat(17)

\* C1, amended: on three clips of 6 s with fadeDuration 0.5 s each,
\* combineClips emits the cross-fade offsets 5.5 and 11 (= 11.5 - 0.5, the
\* second fade starting 0.5 s before the end of the 11.5 s merged so far), in
\* that order, and ends with runningOutputDuration = 17.
C1_SixSixSix ==
    (SixSixSix /\ LoopDone) =>
        /\ Len(filterChain) = 2
        /\ filterChain[1].offset = Rat(11, 2)
        /\ filterChain[2].offset = Int2Rat(11)
        /\ runningOutputDuration = Int2Rat(17)

C1_Witness ==
    /\ SixSixSix
    /\ LoopDone
    /\ cpc = "done"
    /\ runningOutputDuration = Int2Rat(17)

\* C2: runningOutputDuration starts at d[1]; the offset of pair k is taken from
\* the accumulator before the pair is merged, so it equals
\* d[1] + sum_{j=2..k} (d[j] - f[j-1]) - f[k], and only then is d[k+1] - f[k]
\* added; the final accumulator is sum(d) - sum(f).
C2_Accumulation ==
    InBuild =>
        /\ Len(filterChain) = i
        /\ i = 0 => runningOutputDuration = ClipDuration(1)
        /\ runningOutputDuration = RSub(SumDurations(i + 1), SumFades(i))
        /\ \A k \in 1..Len(filterChain) :
              /\ filterChain[k].offset =
                    RMax(Zero, RSub(RSub(SumDurations(k), SumFades(k - 1)),
                                    filterChain[k].duration))
              /\ filterChain[k].offset = RSub(SumDurations(k), SumFades(k))
        /\ LoopDone =>
              runningOutputDuration =
                  RSub(SumDurations(Len(plan)), SumFades(Len(plan) - 1))

C2_Witness ==
    /\ LoopDone
    /\ Len(plan) = 3
    /\ ClipDuration(1) # ClipDuration(2)
    /\ filterChain[1].duration # Zero
    /\ filterChain[2].duration # filterChain[1].duration

\* The margin is at least as long as the shorter clip of pair k.
ShortPair(k) ==
    \/ RLt(ClipDuration(k), FadeMargin)
    \/ RLt(ClipDuration(k + 1), FadeMargin)

\* min(d[k], d[k+1]) - 0.01
FadeCeiling(k) == RSub(RMin(ClipDuration(k), ClipDuration(k + 1)), FadeMargin)

\* C3: for a pair of clips of at least 0.01 s each and a numeric declared
\* fadeDuration of the first, the effective fade is the declared one clamped to
\* [0, min(d[k], d[k+1]) - 0.01]: 0 for a negative one, the ceiling for an
\* oversized one.
C3_EffectiveFade ==
    InBuild =>
        \A k \in 1..Len(filterChain) :
            (~ShortPair(k) /\ IsFinite(request[k].fadeDuration)) =>
                LET declared == request[k].fadeDuration
                    effective == filterChain[k].duration
                IN  /\ RLt(declared, Zero) => effective = Zero
                    /\ RLt(FadeCeiling(k), declared) => effective = FadeCeiling(k)
                    /\ (RLe(Zero, declared) /\ RLe(declared, FadeCeiling(k)))
                          => effective = declared

C3_Witness ==
    /\ LoopDone
    /\ Len(plan) = 3
    /\ ~ShortPair(1)
    /\ ~ShortPair(2)
    /\ RLt(request[1].fadeDuration, Zero)
    /\ filterChain[1].duration = Zero
    /\ RLt(FadeCeiling(2), request[2].fadeDuration)
    /\ filterChain[2].duration = FadeCeiling(2)

\* C4: every emitted cross-fade has 0 <= fade < min(d[k], d[k+1]) and
\* 0 <= offset <= runningOutputDuration as it was when the offset was taken;
\* runningOutputDuration is positive and grows strictly with each merge.
C4_FadesAndOffsetsInRange ==
    /\ [](InBuild =>
            /\ RLt(Zero, runningOutputDuration)
            /\ \A k \in 1..Len(filterChain) :
                  /\ RLe(Zero, filterChain[k].duration)
                  /\ RLt(filterChain[k].duration, ClipDuration(k))
                  /\ RLt(filterChain[k].duration, ClipDuration(k + 1))
                  /\ RLe(Zero, filterChain[k].offset))
    /\ [][(cpc = "build" /\ i' = i + 1) =>
            /\ RLe(filterChain'[i'].offset, runningOutputDuration)
            /\ RLt(Zero, runningOutputDuration)
            /\ RLt(runningOutputDuration, runningOutputDuration')]_vars

C4_Witness ==
    /\ LoopDone
    /\ Len(plan) = 3
    /\ request[1].fadeDuration = Int2Rat(7)
    /\ ShortPair(2)
    /\ filterChain[2].duration = Zero
    /\ RLt(Zero, filterChain[1].duration)

\* C10: given exactly one clip, combineClips copies it to the output: no xfade
\* entry is built and no encoder, preferred or fallback, is invoked.
C10_SingleClipCopied ==
    Len(request) = 1 =>
        /\ cpc \in {"request", "resolved", "clips", "done"}
        /\ cpc = "done" => finalOutput = "copy"
        /\ filterChain = <<>>
        /\ attempts = <<>>
        /\ codec = ""

C10_Witness ==
    /\ Len(plan) = 1
    /\ cpc = "done"
    /\ finalOutput = "copy"
    /\ attempts = <<>>

\* C11: combineClips handed no clips (the list is empty or missing) fails: its
\* only step is the rejection, which creates no output file, hands no codec to
\* the encoder and records no encoder error, so no fallback is attempted.
C11_NoClipsRejected ==
    /\ [](( ~clipPathsGiven \/ Len(clipPaths) = 0 ) =>
            /\ cpc \in { "clips", "failed" }
            /\ finalOutput = "none"
            /\ codec = ""
            /\ attempts = <<>>
            /\ errors = <<>>
            /\ filterChain = <<>>)
    /\ [][ ( cpc = "clips" /\ ( ~clipPathsGiven \/ Len(clipPaths) = 0 ) )
           => cpc' = "failed" ]_vars

C11_Witness ==
    /\ Len(clipPaths) = 0
    /\ cpc = "failed"
    /\ attempts = <<>>
    /\ finalOutput = "none"

\* ------------------------------------------------------------------------
\* Properties of the motion path
\* ------------------------------------------------------------------------

\* generateFramesForImage has computed its transforms and rectangles.
Prepared == mpc \in {"frames", "done"}

\* The two transforms of a render, each with its scale and its crop rectangle
Poses ==
    { [ scale |-> locals.startZoom, transform |-> locals.startTransform,
        rect |-> locals.startRect ],
      [ scale |-> locals.endZoom, transform |-> locals.endTransform,
        rect |-> locals.endRect ] }

SameView(a, b) == a.currentZoom = b.currentZoom /\ a.cropRect = b.cropRect

\* C5: in ping-pong motion the zoom and crop rectangle the forward segment gives
\* at normalized time 0.5 equal those the backward-segment computation gives at
\* 0.5.
C5_MidpointContinuous ==
    (Prepared /\ locals.motionStyle = "ping-pong") =>
        SameView(frameState(locals, TRUE, Rat(1, 2)),
                 frameState(locals, FALSE, Rat(1, 2)))

\* C6: in ping-pong motion the zoom and crop rectangle of the last frame
\* (normalized time 1) equal those of the first frame (normalized time 0).
C6_RoundTrip ==
    (mpc = "done" /\ locals.motionStyle = "ping-pong" /\ Len(frames) >= 2) =>
        /\ frames[1].normalized = Zero
        /\ frames[Len(frames)].normalized = One
        /\ SameView(frames[1], frames[Len(frames)])

RectInside(rect, metrics) ==
    /\ RLe(Zero, rect.left)
    /\ RLe(RAdd(rect.left, rect.width), metrics.naturalWidth)
    /\ RLe(Zero, rect.top)
    /\ RLe(RAdd(rect.top, rect.height), metrics.naturalHeight)

\* C7: for every source size, focus point and zoom > 1 the rectangle of
\* computeCropRect lies inside the source: 0 <= left, left + width <=
\* naturalWidth, 0 <= top, top + height <= naturalHeight.
C7_CropInsideSource ==
    Prepared =>
        \A p \in Poses : RLt(One, p.scale) => RectInside(p.rect, locals.metrics)

\* C8: at zoom 1 getKenBurnsTransform returns zero translation and
\* computeCropRect returns left = 0, top = 0, width = naturalWidth,
\* height = naturalHeight.
C8_FullImageAtZoomOne ==
    Prepared =>
        \A p \in Poses :
            p.scale = One =>
                /\ p.transform.translateX = Zero
                /\ p.transform.translateY = Zero
                /\ p.rect = [ left |-> Zero, top |-> Zero,
                              width |-> locals.metrics.naturalWidth,
                              height |-> locals.metrics.naturalHeight ]

\* Stage coordinate of the scaled image's top-left corner on one axis
ScaledTopLeft(origin, offset, scale, translate) ==
    RAdd(RAdd(origin, RMul(RSub(offset, origin), scale)), translate)

\* On one axis the scaled image covers the stage.
AxisCovered(origin, offset, display, stage, scale, translate) ==
    LET topLeft == ScaledTopLeft(origin, offset, scale, translate)
    IN  /\ RLe(topLeft, Zero)
        /\ RLe(stage, RAdd(topLeft, RMul(display, scale)))

CoveredX(p) ==
    AxisCovered(p.transform.originX, locals.metrics.offsetX, locals.metrics.displayWidth,
                locals.metrics.stageWidth, p.scale, p.transform.translateX)

CoveredY(p) ==
    AxisCovered(p.transform.originY, locals.metrics.offsetY, locals.metrics.displayHeight,
                locals.metrics.stageHeight, p.scale, p.transform.translateY)

\* C9 as stated: for every source size, focus point and scale s > 0, s # 1, the
\* scaled image's top-left is <= 0 and its bottom-right >= the stage dimension
\* on each axis.
C9_Original ==
    Prepared =>
        \A p \in Poses : p.scale # One => (CoveredX(p) /\ CoveredY(p))

\* C9, amended: for every source size, focus point and scale s > 0, s # 1, on
\* each axis on which the scaled image is at least as large as the stage
\* (s * displayWidth >= stageWidth, s * displayHeight >= stageHeight), the
\* scaled image's top-left is <= 0 and its bottom-right >= the stage dimension.
C9_CoversStageWhereLargeEnough ==
    Prepared =>
        \A p \in Poses :
            p.scale # One =>
                /\ RLe(locals.metrics.stageWidth,
                       RMul(locals.metrics.displayWidth, p.scale)) => CoveredX(p)
                /\ RLe(locals.metrics.stageHeight,
                       RMul(locals.metrics.displayHeight, p.scale)) => CoveredY(p)

\* A zoomed pose whose centering translation had to be pulled back on both axes.
C9_Witness ==
    /\ Prepared
    /\ \E p \in Poses :
          /\ RLt(One, p.scale)
          /\ p.transform.translateX #
                RSub(RDiv(locals.metrics.stageWidth, Int2Rat(2)), p.transform.originX)
          /\ p.transform.translateY #
                RSub(RDiv(locals.metrics.stageHeight, Int2Rat(2)), p.transform.originY)
          /\ CoveredX(p)
          /\ CoveredY(p)

\* The normalized times of all frames of the render, rendered or still to render.
FrameTimes ==
    [ k \in 1..(Len(frames) + Len(frameJobs)) |->
        IF k <= Len(frames) THEN frames[k].normalized
        ELSE frameJobs[k - Len(frames)] ]

\* ceil(duration * 30) for a positive duration
CeilFrames(duration) == -((-(duration[1] * 30)) \div duration[2])

\* C12: in full-sequence mode a positive duration gives N = max(2, ceil(duration
\* * 30)) frames, frame k (k = 0 .. N-1) at normalized time k / (N - 1): the
\* first at 0, the last at exactly 1, the times strictly increasing; 6 seconds
\* give 180 frames.
C12_FrameCountAndTimes ==
    ( Prepared /\ ~IsFinite(options)
      /\ IsFinite(declaredConfig.duration) /\ RLt(Zero, declaredConfig.duration) ) =>
        LET N == IF CeilFrames(declaredConfig.duration) > 2
                 THEN CeilFrames(declaredConfig.duration) ELSE 2
            t == FrameTimes
        IN  /\ Len(t) = N
            /\ \A k \in 1..N : /\ t[k][2] > 0
                               /\ t[k][1] * (N - 1) = (k - 1) * t[k][2]
            /\ t[1] = Zero
            /\ t[N] = One
            /\ \A k \in 1..(N - 1) : RLt(t[k], t[k + 1])
            /\ ( declaredConfig.duration = Int2Rat(6) => N = 180 )

C12_Witness ==
    /\ mpc = "done"
    /\ ~IsFinite(options)
    /\ declaredConfig.duration = Int2Rat(6)
    /\ Len(frames) = 180
    /\ frames[1].normalized = Zero
    /\ frames[180].normalized = One

\* The focus point handed to normalizeTargetPoint has no usable coordinates.
NotAPoint(p) == ~p.present \/ ~IsFinite(p.x) \/ ~IsFinite(p.y)

InRange(v) == RLe(Zero, v) /\ RLe(v, Int2Rat(100))

Center(p) == p.x = Int2Rat(50) /\ p.y = Int2Rat(50)

\* The value in [0,100] nearest to v
Nearest(v) == IF RLt(v, Zero) THEN Zero ELSE IF RLt(Int2Rat(100), v) THEN Int2Rat(100) ELSE v

\* C14 as stated: the point returned lies in [0,100] x [0,100], and a focus point
\* that is missing, has a missing or non-numeric coordinate, or has a coordinate
\* outside [0,100] is replaced by the center (50, 50).
C14_Original ==
    Prepared =>
        /\ InRange(locals.targetPoint.x)
        /\ InRange(locals.targetPoint.y)
        /\ ( ( NotAPoint(imageConfig.targetPoint)
               \/ ~InRange(imageConfig.targetPoint.x)
               \/ ~InRange(imageConfig.targetPoint.y) )
             => Center(locals.targetPoint) )

\* C14, amended: the point returned lies in [0,100] x [0,100]; a focus point that
\* is missing or has a missing or non-numeric coordinate is replaced by the
\* center (50, 50); of any other point each coordinate is moved to the nearest
\* value in [0,100], so a coordinate in range is kept.
C14_ClampedOrCentered ==
    Prepared =>
        /\ InRange(locals.targetPoint.x)
        /\ InRange(locals.targetPoint.y)
        /\ ( NotAPoint(imageConfig.targetPoint) => Center(locals.targetPoint) )
        /\ ( ~NotAPoint(imageConfig.targetPoint) =>
                /\ locals.targetPoint.x = Nearest(imageConfig.targetPoint.x)
                /\ locals.targetPoint.y = Nearest(imageConfig.targetPoint.y) )

C14_Witness ==
    /\ Prepared
    /\ imageConfig.targetPoint = Point(150, -10)
    /\ locals.targetPoint.x = Int2Rat(100)
    /\ locals.targetPoint.y = Zero

\* ------------------------------------------------------------------------
\* Properties of the easing
\* ------------------------------------------------------------------------

UnavailableSignature(err) ==
    \/ err \cap { "unknown encoder", "no nvenc capable devices", "cannot find nvenc" } # {}
    \/ { "nvenc", "not available" } \subseteq err

\* A step that handed the codecs att to the encoder and got the errors errs back
\* keeps to the fallback rule; failed: the step has ended with an error;
\* retrying: the step is preparing its second attempt.
FallbackRule(att, errs, failed, retrying) ==
    /\ Len(att) <= 2
    /\ Len(errs) <= Len(att)
    /\ ( Len(att) >= 1 => att[1] = IF useNvenc THEN "h264_nvenc" ELSE "libx264" )
    /\ ( Len(att) = 2 => /\ useNvenc
                         /\ Len(errs) >= 1
                         /\ UnavailableSignature(errs[1])
                         /\ att[2] = "libx264" )
    /\ ( ( Len(errs) >= 1 /\ useNvenc /\ UnavailableSignature(errs[1]) ) =>
            Len(att) = 2 \/ retrying )
    /\ ( retrying => ~failed /\ Len(errs) = 1 )
    /\ ( ( Len(errs) >= 1 /\ ~( useNvenc /\ UnavailableSignature(errs[1]) ) ) =>
            Len(att) = 1 /\ failed )
    /\ ( Len(errs) = 2 => failed )
    /\ ( failed => Len(errs) = Len(att) )

\* The handler has caught an error: it answers 500 and saves no manifest.
HardFailure ==
    /\ cpc \in { "error", "failed", "responded" }
    /\ ~manifestSaved
    /\ ( cpc = "responded" => response.status = 500 )

ClipStepFailed == failure.stage = "encode"

MergeStepFailed == cpc = "failed" \/ ( cpc = "responded" /\ errors # <<>> /\ finalOutput = "none" )

\* combineClips rebuilds its command for the software codec
MergeRetrying == cpc = "build" /\ Len(attempts) = 1 /\ errors # <<>> /\ codec = "libx264"

\* C15: for each clip encode and for the merge, the preferred codec is tried
\* first; a second attempt is made only when hardware encoding is enabled and
\* the first error carries a signature of a missing encoder, and it uses
\* libx264; there are at most two attempts; any other first error, and any error
\* of the second attempt, ends the export with a failure.
C15_EncoderFallback ==
    /\ FallbackRule(clipAttempts, clipErrors, ClipStepFailed, FALSE)
    /\ FallbackRule(attempts, errors, MergeStepFailed, MergeRetrying)
    /\ ( ( ClipStepFailed \/ MergeStepFailed ) => HardFailure )
    /\ ( ClipStepFailed => attempts = <<>> /\ Len(clipPaths) = failure.index )

C15_Witness ==
    /\ useNvenc
    /\ clipAttempts = << "h264_nvenc", "libx264" >>
    /\ Len(clipErrors) = 1
    /\ attempts = << "h264_nvenc", "libx264" >>
    /\ Len(errors) = 2
    /\ cpc = "responded"
    /\ response.status = 500

\* The source image of a plan index could not be found, read, or measured.
ImageFailed == failure.stage \in { "prepare", "read" }

\* The plan indices handed to generateFramesForImage, in order
GeneratedIndices == [ k \in 1..Len(generated) |-> generated[k].index ]

ValidNumber(v) == IsFinite(v) /\ RLt(Zero, v)

\* The duration and the zoom a declared config stands for
SanitizedDuration(config) ==
    IF ValidNumber(config.duration) THEN config.duration ELSE Int2Rat(6)

SanitizedZoom(config) == IF ValidNumber(config.zoom) THEN config.zoom ELSE Rat(9, 5)

\* max(2, ceil(d * 30))
FramesFor(d) == IF CeilFrames(d) > 2 THEN CeilFrames(d) ELSE 2

\* The sum of the sanitized durations of the first k declared configs
RECURSIVE SanitizedSum(_)
SanitizedSum(k) ==
    IF k = 0 THEN Zero ELSE RAdd(SanitizedSum(k - 1), SanitizedDuration(request[k]))

C18_PlanOrder ==
    /\ Len(clipPaths) <= Len(plan)
    /\ \A k \in 1..Len(clipPaths) : clipPaths[k].index = k - 1
    /\ \A k \in 1..Len(clipPaths) :
          clipPaths[k].from = "temp" /\ cpc # "responded" =>
             \E c \in tempClips : c.index = k - 1 /\ c.by = 1
    /\ \A k \in 1..(Len(generated) - 1) : generated[k].index < generated[k + 1].index
    /\ ( cpc \in { "prepare", "cleanup", "generate", "clip" } =>
            /\ Len(clipPaths) = imageIndex
            /\ imageIndex < Len(plan) )
    /\ ( cpc = "clip-done" => Len(clipPaths) = imageIndex + 1 )
    /\ ( ( cpc \in { "clips", "build", "encoding", "done", "failed" }
           \/ attempts # <<>> \/ finalOutput # "none" ) =>
            /\ Len(clipPaths) = Len(plan)
            /\ imageIndex = Len(plan) )

C18_Witness ==
    /\ cpc = "build"
    /\ Len(plan) = 2
    /\ clipPaths = << ClipPath(0, "project"), ClipPath(1, "temp") >>
    /\ GeneratedIndices = << 1 >>

\* The plan indices that have frame files in FRAMES_DIR
FrameIndices == { f.index : f \in framesDir }

\* C20: in one export-video request no frame file of index i exists when the
\* frames of index i are generated; the frames of index i are deleted after its
\* clip is encoded and before the next image is prepared; frame files of at most
\* one plan index exist at any time.
C20_FramesOfOneIndex ==
    /\ Cardinality(FrameIndices) <= 1
    /\ ( cpc = "generate" => imageIndex \notin FrameIndices )
    /\ ( cpc = "clip-done" => FrameIndices = { imageIndex } )
    /\ ( ( cpc \in { "prepare", "clips" } /\ imageIndex > 0 ) =>
            ( imageIndex - 1 ) \notin FrameIndices )
    /\ ( cpc \in { "request", "resolved", "prepare", "cleanup", "generate", "clips",
                   "build", "encoding", "done", "failed" } => framesDir = {} )

C20_Witness ==
    /\ cpc = "generate"
    /\ imageIndex = 1
    /\ GeneratedIndices = << 0 >>
    /\ \E c \in tempClips : c.index = 0 /\ Cardinality(c.frames) = 180
    /\ framesDir = {}

\* ------------------------------------------------------------------------
\* Properties of two requests handled at once
\* ------------------------------------------------------------------------

\* The frame files request r generated for a plan index
OwnFrames(r, index) == { FrameFile(index, frame, r) : frame \in 0..(RaceFrames - 1) }

\* C19: under any interleaving of two render requests, the frame files read
\* when a request encodes the clip of index i are exactly the frames that
\* request generated for index i, and the temp clips it combines are the ones
\* it encoded: no other request deletes, overwrites or adds to them.
C19_FramesIsolated ==
    \A r \in DOMAIN rpc :
        /\ \A k \in 1..Len(framesRead[r]) :
              framesRead[r][k].frames = OwnFrames(r, framesRead[r][k].index)
        /\ ( rpc[r] \in { "combine", "archived" } =>
                \A k \in 1..Len(calls[r].images) :
                   \E c \in tempClips : c.index = calls[r].images[k] /\ c.by = r )

\* ------------------------------------------------------------------------
\* Properties of the merged timeline
\* ------------------------------------------------------------------------

\* C30: successive cross-fades of the merged timeline never overlap: the
\* cross-fade between clips k+1 and k+2 starts no earlier than the cross-fade
\* between clips k and k+1 ends (offset[k+1] >= offset[k] + fade[k]).
C30_FadesDoNotOverlap ==
    \A k \in 1..(Len(filterChain) - 1) :
        RLe(RAdd(filterChain[k].offset, filterChain[k].duration), filterChain[k + 1].offset)

\* ------------------------------------------------------------------------
\* Properties of preview and export together
\* ------------------------------------------------------------------------

\* C24: for every motion style, target zoom and normalized time t, the zoom the
\* browser preview computes at progress t equals the zoom the export computes
\* for the frame at normalized time t.
C24_PreviewMatchesExport ==
    \A k \in 1..Len(frames) :
        frames[k].currentZoom =
            handlePreviewZoom(locals.motionStyle, locals.targetZoom, frames[k].normalized)

\* ------------------------------------------------------------------------
\* Properties of the motion in lock-step
\* ------------------------------------------------------------------------

Lerp(a, b, factor) == RAdd(a, RMul(RSub(b, a), factor))

LerpRect(a, b, factor) ==
    [ left   |-> Lerp(a.left, b.left, factor),
      top    |-> Lerp(a.top, b.top, factor),
      width  |-> Lerp(a.width, b.width, factor),
      height |-> Lerp(a.height, b.height, factor) ]

\* The crop rectangle of a zoom, for the focus point and the source of the render
RectOfZoom(zoom) ==
    computeCropRect(getKenBurnsTransform(locals.targetPoint, locals.metrics, zoom),
                    locals.metrics, zoom)

\* The factor by which the zoom of a frame lies between the start and end zoom
ZoomFactor(frame) ==
    RDiv(RSub(frame.currentZoom, locals.startZoom), RSub(locals.endZoom, locals.startZoom))

OneWay == locals.motionStyle \in { "zoom-in", "zoom-out" }

\* C29: zoom-in starts (t = 0) on the rectangle of zoom 1 and ends (t = 1) on
\* the rectangle of the target zoom, zoom-out the other way round; at every
\* frame the zoom and the four fields of the rectangle are the linear
\* interpolations between start and end state by one and the same factor, for
\* zoom-in and zoom-out the eased time of the frame.  Stated of the frame
\* rendered last, in every state: each frame is the last one when it is rendered.
C29_LockStep ==
    Len(frames) > 0 =>
        LET frame == frames[Len(frames)]
            first == RectOfZoom(IF locals.motionStyle = "zoom-out"
                                THEN locals.targetZoom ELSE One)
            last == RectOfZoom(IF locals.motionStyle = "zoom-out"
                               THEN One ELSE locals.targetZoom)
        IN  /\ ( OneWay /\ frame.normalized = Zero ) =>
                  /\ frame.cropRect = first
                  /\ frame.currentZoom =
                        IF locals.motionStyle = "zoom-in" THEN One ELSE locals.targetZoom
            /\ ( OneWay /\ frame.normalized = One ) =>
                  /\ frame.cropRect = last
                  /\ frame.currentZoom =
                        IF locals.motionStyle = "zoom-in" THEN locals.targetZoom ELSE One
            /\ OneWay =>
                  /\ frame.currentZoom =
                        Lerp(locals.startZoom, locals.endZoom, easeInOut(frame.normalized))
                  /\ frame.cropRect = LerpRect(first, last, easeInOut(frame.normalized))
            /\ IF locals.startZoom = locals.endZoom
               THEN frame.currentZoom = locals.startZoom /\ frame.cropRect = first
               ELSE /\ RLe(Zero, ZoomFactor(frame))
                    /\ RLe(ZoomFactor(frame), One)
                    /\ frame.cropRect =
                          LerpRect(locals.startRect, locals.endRect, ZoomFactor(frame))

C29_Witness ==
    /\ mpc = "done"
    /\ locals.motionStyle = "zoom-out"
    /\ locals.targetZoom = Int2Rat(2)
    /\ Len(frames) >= 3
    /\ locals.startRect.left # locals.endRect.left
    /\ frames[1].cropRect = locals.startRect
    /\ frames[Len(frames)].currentZoom = One
    /\ \E k \in 1..Len(frames) :
          /\ RLt(Zero, ZoomFactor(frames[k]))
          /\ RLt(ZoomFactor(frames[k]), One)

\* ------------------------------------------------------------------------
\* Properties of the extracted region
\* ------------------------------------------------------------------------

\* value brought into lo..hi
Into(value, lo, hi) == IF value < lo THEN lo ELSE IF value > hi THEN hi ELSE value

\* C27: the integer region of every frame lies in the oversampled source W x H:
\* 0 <= left <= W-1, 0 <= top <= H-1, width >= 1, height >= 1, left + width <= W,
\* top + height <= H; left and top are the floor, right and bottom the ceiling
\* of the interpolated rectangle, clamped afterwards.  Stated of the frame
\* rendered last, in every state.
C27_RegionInsideSource ==
    Len(frames) > 0 =>
        LET frame == frames[Len(frames)]
            region == frame.region
            W == locals.workingWidth
            H == locals.workingHeight
            right == RCeil(RAdd(frame.cropRect.left, frame.cropRect.width))
            bottom == RCeil(RAdd(frame.cropRect.top, frame.cropRect.height))
        IN  /\ W = sourceSize[1] * 2
            /\ H = sourceSize[2] * 2
            /\ 0 <= region.left /\ region.left <= W - 1
            /\ 0 <= region.top /\ region.top <= H - 1
            /\ region.width >= 1
            /\ region.height >= 1
            /\ region.left + region.width <= W
            /\ region.top + region.height <= H
            /\ region.left = Into(RFloor(frame.cropRect.left), 0, W - 1)
            /\ region.top = Into(RFloor(frame.cropRect.top), 0, H - 1)
            /\ region.left + region.width = Into(right, region.left + 1, W)
            /\ region.top + region.height = Into(bottom, region.top + 1, H)

\* A frame whose rounded rectangle reaches beyond the source and is cut back
C27_Witness ==
    /\ mpc = "done"
    /\ Len(frames) >= 2
    /\ \E k \in 1..Len(frames) :
          /\ RCeil(RAdd(frames[k].cropRect.left, frames[k].cropRect.width))
                > locals.workingWidth
          /\ frames[k].region.left + frames[k].region.width = locals.workingWidth
          /\ frames[k].region.top > 0

\* ------------------------------------------------------------------------
\* Properties of a focus away from the edges
\* ------------------------------------------------------------------------

\* On one axis the zoomed view centered on the focus (stage / scale long, around
\* the focus at focusAt) lies inside the displayed image.
ViewInside(focusAt, offset, display, stage, scale) ==
    LET half == RDiv(RDiv(stage, scale), Int2Rat(2))
    IN  /\ RLe(offset, RSub(focusAt, half))
        /\ RLe(RAdd(focusAt, half), RAdd(offset, display))

\* Stage coordinates of the focus point of the render
FocusX ==
    RAdd(locals.metrics.offsetX,
         RDiv(RMul(locals.targetPoint.x, locals.metrics.displayWidth), Int2Rat(100)))

FocusY ==
    RAdd(locals.metrics.offsetY,
         RDiv(RMul(locals.targetPoint.y, locals.metrics.displayHeight), Int2Rat(100)))

NoEdgeClamping(p) ==
    /\ RLt(One, p.scale)
    /\ ViewInside(FocusX, locals.metrics.offsetX, locals.metrics.displayWidth,
                  locals.metrics.stageWidth, p.scale)
    /\ ViewInside(FocusY, locals.metrics.offsetY, locals.metrics.displayHeight,
                  locals.metrics.stageHeight, p.scale)

\* C28: for scale s > 1 and a focus for which no edge clamping is needed, the
\* transform maps the focus to the center of the stage, and the crop rectangle
\* is centered on the focus in source pixels, stageWidth / (s * baseScale) wide
\* and stageHeight / (s * baseScale) high.
C28_CenteredOnFocus ==
    Prepared =>
        \A p \in Poses :
            NoEdgeClamping(p) =>
                /\ RAdd(FocusX, p.transform.translateX) =
                      RDiv(locals.metrics.stageWidth, Int2Rat(2))
                /\ RAdd(FocusY, p.transform.translateY) =
                      RDiv(locals.metrics.stageHeight, Int2Rat(2))
                /\ p.rect.width =
                      RDiv(locals.metrics.stageWidth, RMul(p.scale, locals.metrics.baseScale))
                /\ p.rect.height =
                      RDiv(locals.metrics.stageHeight, RMul(p.scale, locals.metrics.baseScale))
                /\ RAdd(p.rect.left, RDiv(p.rect.width, Int2Rat(2))) =
                      RDiv(RMul(locals.targetPoint.x, locals.metrics.naturalWidth),
                           Int2Rat(100))
                /\ RAdd(p.rect.top, RDiv(p.rect.height, Int2Rat(2))) =
                      RDiv(RMul(locals.targetPoint.y, locals.metrics.naturalHeight),
                           Int2Rat(100))

\* A focus off the center, on a source that does not fill the stage
C28_Witness ==
    /\ Prepared
    /\ sourceSize = << 1920, 720 >>
    /\ locals.targetPoint = [ x |-> Int2Rat(40), y |-> Int2Rat(60) ]
    /\ \E p \in Poses : NoEdgeClamping(p) /\ p.scale = Int2Rat(2)

\* ------------------------------------------------------------------------
\* Properties of the transient storage after a request
\* ------------------------------------------------------------------------

\* C21: once an export-video request has finished, whether it succeeded or
\* failed at any stage, no frame or clip files remain under temp/.
C21_TempClearedAfterExport ==
    cpc = "responded" => ( framesDir = {} /\ tempClips = {} )

\* ------------------------------------------------------------------------
\* Properties of the export scope
\* ------------------------------------------------------------------------

\* The plan indices export-video has rendered, and those whose clip it reused
RenderedIndices == { generated[k].index : k \in 1..Len(generated) }

ReusedIndices ==
    { clipPaths[k].index : k \in { j \in 1..Len(clipPaths) : clipPaths[j].from = "project" } }

\* The numbers 1..total the range text names: alone, or inside a span a-b
NamedNumbers(total) ==
    { n \in 1..total :
        \E k \in 1..Len(renderRange) :
           \/ renderRange[k] = << { n } >>
           \/ \E a \in 0..9, b \in 0..9 :
                 /\ renderRange[k] = << { a }, { b } >>
                 /\ ( ( a <= n /\ n <= b ) \/ ( b <= n /\ n <= a ) ) }

\* The plan indices without a clip file in the project
WithoutClip == ( 0..(Len(plan) - 1) ) \ archived

ExpectedScope ==
    IF renderMode = "missing" THEN WithoutClip
    ELSE IF renderMode = "range"
         THEN { n - 1 : n \in NamedNumbers(Len(plan)) } \cup WithoutClip
         ELSE 0..(Len(plan) - 1)

\* C22: export-video renders every index in mode 'all', the indices without a
\* clip file in mode 'missing', and in mode 'range' the 1-based indices the
\* range text names (values outside 1..N ignored) together with the indices
\* without a clip file; every other index reuses its clip and is not rendered.
C22_ExportScope ==
    /\ ( cpc \in { "prepare", "cleanup", "generate", "clip", "clip-done", "error" } =>
            /\ RenderedIndices \subseteq ExpectedScope
            /\ ReusedIndices \cap ExpectedScope = {}
            /\ \A k \in 0..(imageIndex - 1) :
                  k \in RenderedIndices \cup ReusedIndices )
    /\ ( cpc \in { "clips", "build", "encoding", "done" } =>
            /\ RenderedIndices = ExpectedScope
            /\ ReusedIndices = ( 0..(Len(plan) - 1) ) \ ExpectedScope
            /\ indicesToRender = ExpectedScope )

\* '1-4,6' on a plan of two images whose clips exist: both are rendered
C22_Witness ==
    /\ cpc = "done"
    /\ renderMode = "range"
    /\ renderRange = << << { 1 }, { 4 } >>, << { 6 } >> >>
    /\ archived = { 0, 1 }
    /\ RenderedIndices = { 0, 1 }

\* ------------------------------------------------------------------------
\* Properties of the automatic motion
\* ------------------------------------------------------------------------

\* The positions of the log at which an image without a focus target was resolved
AutoPositions == { k \in 1..Len(resolutionLog) : ~resolutionLog[k].declared.targetPoint.present }

\* The motion style of the n-th image without a focus target
Alternating(n) == IF n % 2 = 1 THEN "zoom-in" ELSE "zoom-out"

\* C23: across plan resolutions handled one after the other, every image
\* without a focus target gets the center target (50, 50) and a motion style
\* that alternates zoom-in, zoom-out, zoom-in, ... in order of resolution,
\* across requests, through the persisted pointer (initially zoom-in); an image
\* with a focus target keeps its target and its own motion style and does not
\* advance the pointer.
C23_AutoMotionAlternates ==
    /\ \A k \in 1..Len(resolutionLog) :
          LET entry == resolutionLog[k]
              rank == Cardinality({ j \in AutoPositions : j <= k })
          IN  IF k \in AutoPositions
              THEN /\ entry.config.targetPoint =
                         [ present |-> TRUE, x |-> Int2Rat(50), y |-> Int2Rat(50) ]
                   /\ entry.config.motionStyle = Alternating(rank)
              ELSE /\ entry.config.targetPoint = entry.declared.targetPoint
                   /\ ( entry.declared.motionStyle # "" =>
                           entry.config.motionStyle = entry.declared.motionStyle )
    /\ autoMotionNext = Alternating(Cardinality(AutoPositions) + 1)

\* Three images without a target, resolved by more than one request, with an
\* image that has a target in between
C23_Witness ==
    /\ Len(resolutionLog) = 4
    /\ AutoPositions = { 1, 3, 4 }
    /\ Len(plan) = 1
    /\ plan[1].motionStyle = "zoom-in"
    /\ resolutionLog[2].config.motionStyle = "ping-pong"
    /\ autoMotionNext = "zoom-out"

\* ------------------------------------------------------------------------
\* Properties of the clips of a project
\* ------------------------------------------------------------------------

\* C25: after any sequence of successful exports of one project, with plans
\* that reorder, insert or remove images and modes that reuse clips, the file
\* each manifest image's clipFile names holds the clip rendered from that image.
C25_ClipFilesHoldTheirImage ==
    cpc = "idle" =>
        \A k \in 1..Len(manifest) :
            /\ manifest[k].clipFile \in DOMAIN projectClips
            /\ projectClips[manifest[k].clipFile].id = manifest[k].id

\* C26: when export-video reuses a clip, the duration the compositor uses for
\* the image (that of the plan) is the duration the clip was encoded with, and
\* after the export the config the manifest records for an image is the one
\* its archived clip was rendered from.
C26_ReusedClipMatchesConfig ==
    /\ cpc = "combined" =>
          \A k \in 1..Len(clipPaths) :
              clipPaths[k].from = "project" =>
                  projectClips[clipPaths[k].index].duration = plan[k].duration
    /\ cpc = "idle" =>
          \A k \in 1..Len(manifest) :
              /\ manifest[k].clipFile \in DOMAIN projectClips
              /\ projectClips[manifest[k].clipFile].duration = manifest[k].duration

====
